---- MODULE Spec2Model ----
(***************************************************************************)
(* Model of the Antigravity and GitHub Copilot executors of modelgate      *)
(* (internal/runtime/executor/github_copilot_executor.go): the retry and   *)
(* base-URL fallback loops of Execute / ExecuteStream, the stream          *)
(* validation prelude, and the stream reader goroutines with their         *)
(* outbound channel, usage reporter and consumer.                          *)
(*                                                                         *)
(* One behaviour is one call of one operation (op), chosen in Init.  The   *)
(* upstream is the environment: every upstream call and every Scan of a    *)
(* response body draws its outcome nondeterministically.                   *)
(***************************************************************************)
EXTENDS Integers, Sequences, FiniteSets, TLC

(* ------------------------------ bounds -------------------------------- *)

\* Largest configured request-retry value (attempts = 1 + retry).
MaxRetry == 1

\* Largest number of chunk-producing lines read from one response body.
MaxContentLines == 2

\* Largest small integer among the sampled arguments of the helper functions
\* (the extreme values of int are sampled besides).
MaxSample == 10

\* A model name is made of at most MaxSegments pieces.
MaxSegments == 3

\* The clock of the Copilot token cache advances at most MaxTicks times.
MaxTicks == 4

(* ------------------------- program constants -------------------------- *)

\* maxValidationChunks := 50 in validateStreamStart.
maxValidationChunks == 50

\* Extra capacity of the Antigravity stream channel:
\* make(chan StreamChunk, len(validation.bufferedChunks)+16).
streamChannelSlack == 16

StatusOK == 200
StatusMultipleChoices == 300
StatusTooManyRequests == 429
StatusServiceUnavailable == 503

(* ----------------------------- variables ----------------------------- *)

VARIABLES
    op,             \* "agStream" | "agExecute" | "cpStream": the operation called
    attempts,       \* antigravityRetryAttempts(auth, cfg)
    baseURLs,       \* antigravityBaseURLFallbackOrder(auth)
    ctxDone,        \* the request context is cancelled
    pc,             \* position of the calling goroutine
    attempt,        \* outer loop counter of ExecuteStream
    idx,            \* index into baseURLs of the inner loop (0-based)
    timerFired,     \* the timer of antigravityWait has fired
    result,         \* what the call returned to its caller
    fixture,        \* history of the upstream answers so far:
                    \*   <<"bare", m>>  m answers, every one a bare 429
                    \*   <<"ok", m>>    m bare 429s, then one 200 with content
                    \*   <<"off", 0>>   any other sequence of answers
    answer,         \* history: class of the most recent upstream answer
    lastOutcome,    \* history: the most recent outcome of httpClient.Do in this attempt
    v,              \* streamValidationResult and the locals of validateStreamStart
    scanState,      \* bufio.Scanner of the current body: "open" | "eof" | "err" | "none"
    body,           \* history: kinds of the chunk-producing lines read from it
    rpc,            \* position of the stream reader goroutine
    sendq,          \* chunks the reader still has to send before its next step
    doneFed,        \* number of times "[DONE]" was fed to the stream translator
    dropped,        \* history: a malformed line was skipped with nothing emitted
    out,            \* buffer of the outbound channel
    outCap,         \* capacity of the outbound channel
    closed,         \* the outbound channel is closed
    received,       \* chunks the consumer has received, in order
    consumerActive, \* the consumer is still receiving
    reporter,       \* usageReporter: one-shot latch and the reader's calls
    call,           \* a helper function under study and its arguments
    ret,            \* what that function returned
    clock,          \* time.Now(), in milliseconds
    heap,           \* the maps in memory, by address
    callerAuth,     \* the *Auth the caller passes in
    cloneAuth,      \* auth.Clone() handed to refreshToken
    tokOp,          \* "ensureAccessToken" | "Refresh": the token operation called
    tokPc,          \* "call" | "inflight" | "returned"
    reqCtx,         \* the inbound request context: cancelled (done), its value
                    \* "modelgate.roundtripper" (rt); history: tokPc when it
                    \* was cancelled (at)
    refreshCtx,     \* the context handed to refreshToken
    tokRet,         \* what the token operation returned
    cache,          \* GitHubCopilotExecutor.cache, by GitHub access token
    callers,        \* the goroutines calling ensureAPIToken: position and key
    apiRet,         \* what ensureAPIToken returned in the last step, if it did
    onboard,        \* antigravityOnboardUser: position (pc), loop counter
                    \* (attempt), what it returned (result); history: the
                    \* requests sent, the time slept, the last answer
    tokenStore,     \* package auth: registeredStore, storeMu, and the
                    \* goroutines calling GetTokenStore / RegisterTokenStore
    login           \* AntigravityAuthenticator.Login: position (pc), timers,
                    \* cbChan, cbRes and what it returned

cfgVars    == <<op, attempts, baseURLs>>
execVars   == <<pc, attempt, idx, timerFired, result,
               fixture, answer, lastOutcome>>
valVars    == <<v, scanState, body>>
readerVars == <<rpc, sendq, doneFed, dropped>>
chanVars   == <<out, outCap, closed, received, consumerActive>>
pureVars   == <<call, ret>>
tokenVars  == <<clock, heap, callerAuth, cloneAuth, tokOp, tokPc,
               reqCtx, refreshCtx, tokRet>>
cacheVars  == <<cache, callers, apiRet>>
onboardVars == <<onboard>>
authVars   == <<tokenStore, login>>
auxVars    == <<pureVars, tokenVars, cacheVars, onboardVars, authVars>>
streamVars == <<cfgVars, ctxDone, execVars, valVars, readerVars, chanVars, reporter>>
vars == <<streamVars, auxVars>>

(* ------------------------- upstream alphabet -------------------------- *)

\* Classes of response bodies of a non-2xx answer.
Bodies == {"empty", "retry5s", "nocapacity"}

\* 500 stands for every status that is neither 2xx, 429 nor 503.
Statuses == {StatusOK, StatusTooManyRequests, 500, StatusServiceUnavailable}

\* Outcome of one httpClient.Do plus the read of a non-2xx body.
Outcomes ==
    {[t |-> "ctxerr", status |-> 0, body |-> "empty"],
     [t |-> "neterr", status |-> 0, body |-> "empty"],
     [t |-> "readerr", status |-> 0, body |-> "empty"],
     [t |-> "http", status |-> StatusOK, body |-> "empty"]}
    \cup [t : {"http"}, status : Statuses \ {StatusOK}, body : Bodies]

\* No upstream call was made yet in this attempt (var lastStatus, lastBody, lastErr).
NoOutcome == [t |-> "none", status |-> 0, body |-> "empty"]

\* errors.Is(errDo, context.Canceled) || errors.Is(errDo, context.DeadlineExceeded)
isContextCanceled_Never(o) == FALSE

isContextCanceled(o) == o.t = "ctxerr"

\* Kinds of SSE lines of an Antigravity stream body.
\*   blank   jsonPayload(line) = nil
\*   empty   JSON that translates to no chunk
\*   usage   JSON with usage metadata that translates to no chunk
\*   text    translates to one chunk;  multi   translates to two chunks
\*   malfix  MALFORMED_FUNCTION_CALL whose message repairs to a JSON object
\*   malnil  MALFORMED_FUNCTION_CALL whose message repairs to JSON that is
\*           no object (createRepairedToolCallChunk returns nil)
\*   malbad  MALFORMED_FUNCTION_CALL whose message cannot be repaired
AntigravityLineKinds ==
    {"blank", "empty", "usage", "text", "multi", "malfix", "malnil", "malbad"}

\* Kinds of lines of a Copilot stream body ("done" is the line data: [DONE]).
CopilotLineKinds == {"blank", "done", "usage", "text", "multi"}

ProducesChunks(kind) == kind \in {"text", "multi", "malfix"}

(* --------------------------- pure functions --------------------------- *)

\* parseRetryDelay(body): the delay (seconds) of the structured retry
\* information of an error body, <<>> when the body carries none.
parseRetryDelay(b) ==
    IF b = "retry5s" THEN <<5>> ELSE <<>>

\* A plausible slip: never recognising a bare 429.
isBare429_Never(statusCode, b) == FALSE

isBare429(statusCode, b) ==
    IF statusCode # StatusTooManyRequests THEN FALSE
    ELSE parseRetryDelay(b) = <<>>

antigravityShouldRetryNoCapacity(statusCode, b) ==
    IF statusCode # StatusServiceUnavailable THEN FALSE
    ELSE IF b = "empty" THEN FALSE
    ELSE b = "nocapacity"

\* Go's int where it is 32 bits wide (GOARCH=386, arm): its largest and
\* smallest values, and x + 1 in int arithmetic, which wraps around.
MaxInt == 2147483647

MinInt == -MaxInt - 1

IntInc(x) == IF x = MaxInt THEN MinInt ELSE x + 1

\* The retry setting antigravityRetryAttempts starts from: cfg.RequestRetry
\* (0 with a nil cfg), replaced by auth.RequestRetryOverride() when there is
\* one.  cfg and override are <<>> (nil / none) or <<n>>.
configuredRetry(cfg, override) ==
    IF override # <<>> THEN override[1]
    ELSE IF cfg # <<>> THEN cfg[1]
    ELSE 0

\* antigravityRetryAttempts(auth, cfg), from the configured retry count on
antigravityRetryAttempts(retry) ==
    LET r == IF retry < 0 THEN 0 ELSE retry
        a == IntInc(r)
    IN  IF a < 1 THEN 1 ELSE a

\* The step and the cap of the backoff delay, in milliseconds.
retryDelayStepMs == 250

retryDelayCapMs == 2000

\* A plausible slip: the delay is not capped.
antigravityNoCapacityRetryDelay_NoCap(a) == IntInc(IF a < 0 THEN 0 ELSE a)

\* antigravityNoCapacityRetryDelay(attempt), in units of retryDelayStepMs:
\* time.Duration(attempt+1) * 250ms, replaced by 2s when larger than 2s.
antigravityNoCapacityRetryDelay(a) ==
    LET n == IntInc(IF a < 0 THEN 0 ELSE a)
    IN  IF n > retryDelayCapMs \div retryDelayStepMs
        THEN retryDelayCapMs \div retryDelayStepMs
        ELSE n

\* No helper function was called / has returned.
NoCall == [fn |-> "none"]

NoRet == <<>>

\* A plausible slip: retryAfter is parsed whatever the status code.
statusErr_AnyRetryAfter(code, b) ==
    [kind |-> "error", err |-> "status", code |-> code, body |-> b,
     retryAfter |-> parseRetryDelay(b)]

\* statusErr{code, msg} with retryAfter set only for a 429 whose body parses.
statusErr(code, b) ==
    [kind |-> "error", err |-> "status", code |-> code, body |-> b,
     retryAfter |-> IF code = StatusTooManyRequests THEN parseRetryDelay(b) ELSE <<>>]

plainErr(what) ==
    [kind |-> "error", err |-> what, code |-> 0, body |-> "empty", retryAfter |-> <<>>]

NoResult     == [kind |-> "none", err |-> "", code |-> 0, body |-> "empty", retryAfter |-> <<>>]
StreamResult == [kind |-> "stream", err |-> "", code |-> 0, body |-> "empty", retryAfter |-> <<>>]
ResponseResult == [kind |-> "response", err |-> "", code |-> 0, body |-> "empty", retryAfter |-> <<>>]

\* A plausible slip: every non-2xx answer falls back to the next base URL.
StreamStatusDecision_FallbackAll(status, b, a, i) ==
    IF isBare429(status, b) /\ a < attempts - 1 THEN "retry"
    ELSE IF i + 1 < Len(baseURLs) THEN "next"
    ELSE "fail"

\* What ExecuteStream does with a non-2xx answer (status, b) received on
\* base URL i of attempt a: "retry" = wait and continue attemptLoop,
\* "next" = continue with base URL i+1, "fail" = return the StatusError.
StreamStatusDecision(status, b, a, i) ==
    IF status = StatusTooManyRequests
    THEN IF isBare429(status, b) /\ a < attempts - 1 THEN "retry"
         ELSE IF antigravityShouldRetryNoCapacity(status, b) /\ i + 1 < Len(baseURLs) THEN "next"
         ELSE IF antigravityShouldRetryNoCapacity(status, b) /\ a < attempts - 1 THEN "retry"
         ELSE IF i + 1 < Len(baseURLs) THEN "next"
         ELSE "fail"
    ELSE "fail"

\* A plausible slip: Execute falls back on every non-2xx status.
ExecuteStatusDecision_AnyStatus(status, i) ==
    IF i + 1 < Len(baseURLs) THEN "next" ELSE "fail"

\* What Execute (non-streaming) does with a non-2xx answer on base URL i.
ExecuteStatusDecision(status, i) ==
    IF status = StatusTooManyRequests /\ i + 1 < Len(baseURLs) THEN "next" ELSE "fail"

\* Class of an upstream answer, as recorded in answer: a bare 429 is a 429
\* whose body carries no retry information.
AnswerClass(o) ==
    CASE o.t # "http" -> o.t
      [] o.t = "http" /\ o.status = StatusTooManyRequests /\ o.body # "retry5s" -> "bare429"
      [] o.t = "http" /\ o.status = StatusTooManyRequests /\ o.body = "retry5s" -> "info429"
      [] o.t = "http" /\ o.status = StatusServiceUnavailable /\ o.body = "nocapacity" -> "nocap503"
      [] OTHER -> "status"

\* The history of upstream answers after one more answer of class c.
Answered(c) ==
    /\ fixture' = IF fixture[1] = "bare" /\ c = "bare429" THEN <<"bare", fixture[2] + 1>>
                  ELSE IF fixture[1] = "bare" /\ c = "okContent" THEN <<"ok", fixture[2]>>
                  ELSE <<"off", 0>>
    /\ answer' = c

\* Chunks: att = attempt that produced it, line = ordinal of the producing
\* line among the chunk-producing lines of its body, k = position among the
\* chunks of that line.
Chunk(a, l, k, kind) == [att |-> a, line |-> l, k |-> k, kind |-> kind]

\* sdktranslator.TranslateStream on a data line: the number of client chunks
\* depends on the line only.
TranslateStream(a, l, kind) ==
    CASE kind = "text"  -> <<Chunk(a, l, 1, "data")>>
      [] kind = "multi" -> <<Chunk(a, l, 1, "data"), Chunk(a, l, 2, "data")>>
      [] OTHER          -> <<>>

\* createRepairedToolCallChunk after a successful attemptJSONRepair.
RepairedChunk(a, l) == <<Chunk(a, l, 1, "repaired")>>

\* usageReporter: publish / ensurePublished / publishFailure share a one-shot
\* latch; ensure and failure count the calls made by the reader goroutine.
NewReporter == [published |-> <<>>, ensure |-> 0, failure |-> 0]

ReporterPublish(r, a) ==
    IF r.published = <<>> THEN [r EXCEPT !.published = <<[att |-> a, what |-> "usage"]>>] ELSE r

ReporterEnsure(r, a) ==
    [r EXCEPT !.ensure = @ + 1,
              !.published = IF @ = <<>> THEN <<[att |-> a, what |-> "empty"]>> ELSE @]

ReporterFailure(r, a) ==
    [r EXCEPT !.failure = @ + 1,
              !.published = IF @ = <<>> THEN <<[att |-> a, what |-> "failure"]>> ELSE @]

NewValidation ==
    [i |-> 0, contentChunkCount |-> 0, bufferedChunks |-> <<>>, needsRetry |-> FALSE,
     retryReason |-> "", scanErr |-> FALSE, isEmpty |-> FALSE, done |-> FALSE]

(* ---------------- Copilot: target dialect and endpoint path -------------- *)

\* Strings are sequences of characters.
CopilotPrefix == <<"c", "o", "p", "i", "l", "o", "t", "-">>

ClaudePrefix == <<"c", "l", "a", "u", "d", "e", "-">>

GPT5Prefix == <<"g", "p", "t", "-", "5">>

githubCopilotChatPath == "/chat/completions"

githubCopilotResponsesPath == "/responses"

githubCopilotMessagesPath == "/v1/messages"

\* strings.HasPrefix(s, prefix)
HasPrefix(s, prefix) ==
    Len(s) >= Len(prefix) /\ SubSeq(s, 1, Len(prefix)) = prefix

\* strings.TrimPrefix(s, prefix)
TrimPrefix(s, prefix) ==
    IF HasPrefix(s, prefix) THEN SubSeq(s, Len(prefix) + 1, Len(s)) ELSE s

\* isGPT5Model(model)
isGPT5Model(model) == HasPrefix(TrimPrefix(model, CopilotPrefix), GPT5Prefix)

\* A plausible slip: the provider prefix is not removed.
isCopilotClaudeModel_NoTrim(model) == HasPrefix(model, ClaudePrefix)

\* isCopilotClaudeModel(model)
isCopilotClaudeModel(model) == HasPrefix(TrimPrefix(model, CopilotPrefix), ClaudePrefix)

\* sdktranslator.FromString(name): the Format of that name.
FromString(name) == [format |-> name]

\* sdktranslator.FormatClaude
FormatClaude == [format |-> "claude"]

\* isCopilotClaudeFormat(format)
isCopilotClaudeFormat(format) == format = FormatClaude

\* toFormat of Execute / ExecuteStream
toFormat(model) ==
    IF isCopilotClaudeModel(model) THEN "claude"
    ELSE IF isGPT5Model(model) THEN "codex"
    ELSE "openai"

\* getEndpointPath(model, format)
getEndpointPath(model, format) ==
    IF isCopilotClaudeFormat(format) THEN githubCopilotMessagesPath
    ELSE IF isGPT5Model(model) THEN githubCopilotResponsesPath
    ELSE githubCopilotChatPath

(* ------------------- Copilot: Claude thinking normalization ------------- *)

\* An absent JSON field / a nil pointer is <<>>, a present one <<value>>.
Absent == <<>>

\* strings.ToLower(strings.TrimSpace(s)); a string is its lower-case trimmed
\* text and whether it is spelled exactly so (exact).
ToLowerTrimSpace(s) == [s EXCEPT !.exact = TRUE]

\* util.ModelSupportsThinking(model): the registry knows a thinking range of
\* the model.
ModelSupportsThinking(info) == info # Absent /\ info[1].Thinking # Absent

\* util.NormalizeThinkingBudget(model, budget): the budget brought into the
\* model's valid range; unchanged when the model has none.
NormalizeThinkingBudget(info, budget) ==
    IF ~ModelSupportsThinking(info) THEN budget
    ELSE LET r == info[1].Thinking[1]
         IN  IF budget < r.Min THEN r.Min
             ELSE IF budget > r.Max THEN r.Max
             ELSE budget

\* minThinkingBudget(model)
minThinkingBudget(info) ==
    IF info # Absent /\ info[1].Thinking # Absent THEN info[1].Thinking[1].Min ELSE 0

\* gjson Result.Int() of an optional number: 0 when absent.
GJSONInt(opt) == IF opt = Absent THEN 0 ELSE opt[1]

\* A plausible slip: the budget is clamped to max_tokens, not below it.
ClampBelowMax_Inclusive(normalized, maxVal) ==
    IF normalized > maxVal THEN maxVal ELSE normalized

\* if normalized >= maxVal { normalized = maxVal - 1 }
ClampBelowMax(normalized, maxVal) ==
    IF normalized >= maxVal THEN maxVal - 1 ELSE normalized

\* normalizeCopilotClaudeThinking(model, body); info is the registry's
\* ModelInfo of the model.  A body b is its max_tokens, its thinking object
\* (type and budget_tokens) and its other fields.
normalizeCopilotClaudeThinking(info, b) ==
    IF ~ModelSupportsThinking(info) THEN b
    ELSE
    LET b1 == IF b.max_tokens = Absent /\ info # Absent
                    /\ info[1].MaxCompletionTokens > 0
                 THEN [b EXCEPT !.max_tokens = <<info[1].MaxCompletionTokens>>]
                 ELSE b
        maxVal == GJSONInt(b1.max_tokens)
    IN  IF maxVal <= 0 THEN b1
        ELSE IF b1.thinking = Absent THEN b1
        ELSE
        LET thinking     == b1.thinking[1]
            thinkingType == ToLowerTrimSpace(thinking.type)
        IN  IF thinkingType = [text |-> "disabled", exact |-> TRUE] THEN b1
            ELSE
            LET b0         == GJSONInt(thinking.budget_tokens)
                budgetVal  == IF b0 <= 0 THEN NormalizeThinkingBudget(info, -1) ELSE b0
                normalized == ClampBelowMax(NormalizeThinkingBudget(info, budgetVal),
                                            maxVal)
                minBudget  == minThinkingBudget(info)
            IN  IF minBudget > 0 /\ normalized > 0 /\ normalized < minBudget
                THEN [b1 EXCEPT !.thinking = Absent]
                ELSE [b1 EXCEPT !.thinking =
                         <<[type |-> [text |-> "enabled", exact |-> TRUE],
                            budget_tokens |-> <<normalized>>]>>]

(* ------------------- Antigravity token: data and helpers ---------------- *)

\* time.Second, in the unit of clock (milliseconds)
Second == 1000

\* refreshSkew = 3000 * time.Second
refreshSkew == 3000 * Second

\* time.Time{}: before every time of the model.
ZeroTime == MinInt

\* A value of a map[string]any.  A string is its core text with or without
\* white space around it (pad); text "rfc3339" is the RFC 3339 text of the
\* time n, text "digits" the decimal text of the number n.
Nil == [ty |-> "nil", pad |-> FALSE, text |-> "", n |-> 0]

Str(pad, text, n) == [ty |-> "string", pad |-> pad, text |-> text, n |-> n]

Int64(n) == [ty |-> "int64", pad |-> FALSE, text |-> "", n |-> n]

\* strings.TrimSpace
TrimSpace(str) == [str EXCEPT !.pad = FALSE]

\* The nil map and the nil *Auth.
NilMap == 0

NilAuth == [isNil |-> TRUE, meta |-> NilMap, attrs |-> NilMap]

\* metaStringValue(metadata, key): the trimmed text of a string value, else "".
metaStringValue(h, m, key) ==
    IF m = NilMap THEN ""
    ELSE IF h[m][key].ty = "string" THEN TrimSpace(h[m][key]).text
    ELSE ""

\* int64Value(value): <<n>> for an integer or its decimal text, else <<>>.
int64Value(value) ==
    IF value.ty = "int64" THEN <<value.n>>
    ELSE IF value.ty = "string" /\ TrimSpace(value).text = "digits" THEN <<value.n>>
    ELSE <<>>

\* tokenExpiry(metadata)
tokenExpiry(h, m) ==
    IF m = NilMap THEN ZeroTime
    ELSE LET expStr    == h[m]["expired"]
             expiresIn == int64Value(h[m]["expires_in"])
             tsMs      == int64Value(h[m]["timestamp"])
         IN  IF expStr.ty = "string" /\ TrimSpace(expStr).text = "rfc3339"
             THEN expStr.n
             ELSE IF expiresIn # <<>> /\ tsMs # <<>>
                  THEN tsMs[1] + expiresIn[1] * Second
                  ELSE ZeroTime

\* A plausible slip: the stored token is kept up to and including the lead.
StoredTokenFresh_NonStrict(accessToken, expiry, now) ==
    accessToken # "" /\ expiry >= now + refreshSkew

\* accessToken != "" && expiry.After(time.Now().Add(refreshSkew))
StoredTokenFresh(accessToken, expiry, now) ==
    accessToken # "" /\ expiry > now + refreshSkew

\* A plausible slip: the refresh runs under the inbound context.
RefreshContext_Inbound(ctx) ==
    [parent |-> "request", rt |-> IF ctx.rt = "rt0" THEN "rt0" ELSE "none"]

\* refreshCtx of ensureAccessToken: context.Background(), with the value
\* "modelgate.roundtripper" of ctx when that is a non-nil http.RoundTripper.
RefreshContext(ctx) ==
    [parent |-> "background", rt |-> IF ctx.rt = "rt0" THEN "rt0" ELSE "none"]

\* Refresh hands its own ctx to refreshToken.
InboundContext(ctx) == [parent |-> "request", rt |-> ctx.rt]

NoContext == [parent |-> "none", rt |-> "none"]

\* ctx.Done() is closed: only a context derived from the request context is
\* cancelled with it.
ContextDone(c, ctx) == c.parent = "request" /\ ctx.done

\* A plausible slip: the copy shares the maps of the original.
Clone_Shared(h, a) == [auth |-> a, heap |-> h]

\* auth.Clone(): a new Auth whose Metadata and Attributes are new maps with
\* the entries of the original's.
Clone(h, a) ==
    LET m  == IF a.meta = NilMap THEN NilMap ELSE a.meta + 2
        t  == IF a.attrs = NilMap THEN NilMap ELSE a.attrs + 2
        h1 == IF m = NilMap THEN h ELSE (m :> h[a.meta]) @@ h
        h2 == IF t = NilMap THEN h1 ELSE (t :> h[a.attrs]) @@ h1
    IN  [auth |-> [isNil |-> FALSE, meta |-> m, attrs |-> t], heap |-> h2]

NoTokRet == [token |-> "", updated |-> NilAuth, err |-> "pending", code |-> 0]

TokRet(token, updated, err, code) ==
    [token |-> token, updated |-> updated, err |-> err, code |-> code]

\* No token operation is in progress.
TokenIdle ==
    /\ clock = 0
    /\ heap = <<>>
    /\ callerAuth = NilAuth
    /\ cloneAuth = NilAuth
    /\ tokOp = "none"
    /\ tokPc = "returned"
    /\ reqCtx = [done |-> FALSE, at |-> "", rt |-> "none"]
    /\ refreshCtx = NoContext
    /\ tokRet = NoTokRet

(* --------------------- Copilot API token cache: data -------------------- *)

\* time.Minute, in the unit of clock
Minute == 60 * Second

\* githubCopilotTokenCacheTTL = 25 * time.Minute
githubCopilotTokenCacheTTL == 25 * Minute

\* tokenExpiryBuffer = 5 * time.Minute
tokenExpiryBuffer == 5 * Minute

\* The GitHub access tokens in use.
AccessKeys == {"ghoA", "ghoB"}

Callers == {1, 2}

\* No cache entry: e.cache[accessToken] is absent.
NoEntry == [present |-> FALSE, token |-> <<>>, expiresAt |-> 0]

\* &cachedAPIToken{token, expiresAt}
cachedAPIToken(token, expiresAt) ==
    [present |-> TRUE, token |-> token, expiresAt |-> expiresAt]

\* A return of ensureAPIToken: "cached" | "fetched" | "401", the caller,
\* its access token, the API token returned, and apiToken.ExpiresAt of the
\* upstream answer behind a fetched one.
NoAPIRet == [kind |-> "none", caller |-> 0, key |-> "", token |-> <<>>, upstream |-> 0]

APIRet(kind, c, key, token, x) ==
    [kind |-> kind, caller |-> c, key |-> key, token |-> token, upstream |-> x]

\* No call of ensureAPIToken is in progress and the cache is empty.
CacheIdle ==
    /\ cache = [k \in AccessKeys |-> NoEntry]
    /\ callers = [c \in Callers |-> [pc |-> "idle", key |-> ""]]
    /\ apiRet = NoAPIRet

\* antigravityOnboardUser is not running.
NoResponse ==
    [kind |-> "none", status |-> 0, valid |-> FALSE, done |-> "absent",
     form |-> "absent", id |-> <<>>]

NoOnboardResult == [projectID |-> <<>>, err |-> "none"]

OnboardIdle ==
    onboard = [pc |-> "idle", attempt |-> 0, requests |-> 0, slept |-> 0,
               last |-> NoResponse, result |-> NoOnboardResult]

\* A token store: none (nil), the k-th store made by NewFileTokenStore, or
\* a store of the caller of RegisterTokenStore.
NilStore == [kind |-> "nil", n |-> 0]

FileStore(k) == [kind |-> "file", n |-> k]

CustomStore(k) == [kind |-> "custom", n |-> k]

\* Nothing was returned, or registered, yet.
NoStore == [kind |-> "none", n |-> 0]

\* var storeMu, registeredStore at program start; no goroutine is inside
\* GetTokenStore or RegisterTokenStore.
StoreIdle ==
    tokenStore = [registeredStore |-> NilStore, writer |-> 0, readers |-> {},
                  g |-> [c \in Callers |->
                            [pc |-> "idle", s |-> NilStore, clean |-> FALSE,
                             ret |-> NoStore]],
                  reg |-> [pc |-> "idle", store |-> NilStore],
                  created |-> 0, registers |-> 0, lastRegistered |-> NoStore]

\* A callbackResult, and the zero value of var cbRes.
callbackResult(code, state, error) == [Code |-> code, State |-> state, Error |-> error]

NoCallback == callbackResult("", "", "")

NoLoginResult == [kind |-> "none", err |-> ""]

\* Login is not running.
LoginIdle ==
    login = [pc |-> "idle", hasPrompt |-> FALSE, manualPromptC |-> "nil",
             timeoutFired |-> FALSE, cbChan |-> <<>>, cbRes |-> NoCallback,
             exchanges |-> 0, result |-> NoLoginResult, inTime |-> FALSE]

AuthIdle == StoreIdle /\ LoginIdle

(* ------------------------------- Init --------------------------------- *)

DefaultBaseURLs == <<"sandbox-daily", "daily", "prod">>

Init ==
    /\ op \in {"agStream", "agExecute", "cpStream"}
    /\ attempts \in {antigravityRetryAttempts(r) : r \in (-1)..MaxRetry}
    /\ baseURLs \in {<<"custom">>, DefaultBaseURLs}
    /\ ctxDone = FALSE
    /\ pc = "request"
    /\ attempt = 0
    /\ idx = 0
    /\ timerFired = FALSE
    /\ result = NoResult
    /\ fixture = <<"bare", 0>>
    /\ answer = ""
    /\ lastOutcome = NoOutcome
    /\ v = NewValidation
    /\ scanState = "none"
    /\ body = <<>>
    /\ rpc = "idle"
    /\ sendq = <<>>
    /\ doneFed = 0
    /\ dropped = FALSE
    /\ out = <<>>
    /\ outCap = 0
    /\ closed = FALSE
    /\ received = <<>>
    /\ consumerActive = TRUE
    /\ reporter = NewReporter
    /\ call = NoCall
    /\ ret = NoRet
    /\ TokenIdle
    /\ CacheIdle
    /\ OnboardIdle
    /\ AuthIdle

(* ------------------- Antigravity ExecuteStream: loops ------------------ *)

\* lastStatus, lastBody and lastErr of the loops are not modelled: they are
\* read only by the code after the inner loop, which no execution reaches
\* (the iteration on the last base URL always returns or leaves attemptLoop).

\* attemptLoop / inner base-URL loop of ExecuteStream: one httpClient.Do on
\* baseURLs[idx] of the current attempt, and the handling of its answer up
\* to the next blocking point.
StreamRequest ==
    /\ op = "agStream"
    /\ pc = "request"
    /\ \E o \in Outcomes :
        /\ (o.t = "ctxerr") <=> ctxDone
        /\ lastOutcome' = o
        /\ IF isContextCanceled(o) THEN
                /\ Answered(AnswerClass(o))
                /\ pc' = "returned"
                /\ result' = plainErr("context")
                /\ UNCHANGED <<attempt, idx, timerFired, valVars>>
           ELSE IF o.t # "http" THEN
                /\ Answered(AnswerClass(o))
                /\ IF idx + 1 < Len(baseURLs)
                   THEN idx' = idx + 1 /\ UNCHANGED <<pc, result>>
                   ELSE pc' = "returned" /\ result' = plainErr(o.t) /\ UNCHANGED idx
                /\ UNCHANGED <<attempt, timerFired, valVars>>
           ELSE IF o.status < StatusOK \/ o.status >= StatusMultipleChoices THEN
                LET d == StreamStatusDecision(o.status, o.body, attempt, idx) IN
                /\ Answered(AnswerClass(o))
                /\ CASE d = "retry" ->
                          pc' = "wait" /\ timerFired' = FALSE /\ UNCHANGED <<idx, result>>
                     [] d = "next" ->
                          idx' = idx + 1 /\ UNCHANGED <<pc, timerFired, result>>
                     [] OTHER ->
                          /\ pc' = "returned"
                          /\ result' = statusErr(o.status, o.body)
                          /\ UNCHANGED <<idx, timerFired>>
                /\ UNCHANGED <<attempt, valVars>>
           ELSE \* 2xx: validateStreamStart takes over the body
                /\ pc' = "validate"
                /\ v' = NewValidation
                /\ scanState' = "open"
                /\ body' = <<>>
                /\ UNCHANGED <<attempt, idx, timerFired,
                               result, fixture, answer>>
    /\ dropped' = FALSE
    /\ UNCHANGED <<auxVars, cfgVars, ctxDone, rpc, sendq, doneFed, chanVars, reporter>>

\* The timer of antigravityWait fires.
TimerFire ==
    /\ pc = "wait"
    /\ ~timerFired
    /\ timerFired' = TRUE
    /\ UNCHANGED <<auxVars, cfgVars, ctxDone, pc, attempt, idx, 
                   result, fixture, answer, lastOutcome, valVars, readerVars, chanVars,
                   reporter>>

\* antigravityWait returns: with ctx.Err() when the context is done, with nil
\* when the timer fired (select picks either when both are ready).  On nil the
\* caller continues attemptLoop: attempt++, first base URL, fresh locals.
StreamWait ==
    /\ pc = "wait"
    /\ \/ /\ ctxDone
          /\ pc' = "returned"
          /\ result' = plainErr("context")
          /\ UNCHANGED <<attempt, idx, v, lastOutcome>>
       \/ /\ timerFired
          /\ pc' = "request"
          /\ attempt' = attempt + 1
          /\ idx' = 0
          /\ v' = NewValidation
          /\ lastOutcome' = NoOutcome
          /\ UNCHANGED result
    /\ timerFired' = FALSE
    /\ UNCHANGED <<auxVars, cfgVars, ctxDone, fixture, answer, scanState, body, readerVars,
                   chanVars, reporter>>

(* ---------------- Antigravity: stream validation prelude ---------------- *)

\* Class of a 2xx answer once its prelude is over.
ValidationClass(vr) ==
    IF vr.contentChunkCount > 0 /\ ~vr.needsRetry /\ ~vr.scanErr THEN "okContent"
    ELSE IF vr.needsRetry THEN "okRetry"
    ELSE "okScanErr"

\* A plausible slip: the retry test of ExecuteStream ignores needsRetry.
ShouldRetryValidation_Never(vr, a) == FALSE

\* A plausible slip: the retry test of ExecuteStream ignores the attempts left.
ShouldRetryValidation_Always(vr, a) == vr.needsRetry

\* ExecuteStream: validation.needsRetry && attempt < attempts-1.
ShouldRetryValidation(vr, a) == vr.needsRetry /\ a < attempts - 1

\* A plausible slip: the channel is fed from an empty buffer, losing the
\* chunks buffered by the prelude.
InitialSendQueue_Lost(vr) == <<>>

\* The reader goroutine starts by sending v.bufferedChunks in order.
InitialSendQueue(vr) == vr.bufferedChunks

\* validateStreamStart has returned vr, its scanner being in state st:
\* ExecuteStream either closes the body and waits before the next attempt
\* (v keeps the counters of the discarded prelude until that attempt starts),
\* or creates the channel, starts the reader goroutine and returns the stream
\* (the reader gets the result struct; the prelude's counters are gone).
Conclude(vr, st, drp) ==
    /\ v' = IF ShouldRetryValidation(vr, attempt)
            THEN [vr EXCEPT !.done = TRUE]
            ELSE [vr EXCEPT !.done = TRUE, !.i = 0, !.contentChunkCount = 0]
    /\ Answered(ValidationClass(vr))
    /\ UNCHANGED lastOutcome
    /\ IF ShouldRetryValidation(vr, attempt)
       THEN /\ scanState' = "closed"
            /\ pc' = "wait"
            /\ timerFired' = FALSE
            /\ dropped' = FALSE
            /\ UNCHANGED <<idx, result, outCap, rpc, sendq>>
       ELSE /\ scanState' = st
            /\ pc' = "returned"
            /\ result' = StreamResult
            /\ idx' = 0   \* the loop variable is out of scope; the reader keeps attempt
            /\ outCap' = Len(vr.bufferedChunks) + streamChannelSlack
            /\ rpc' = "scan"
            /\ sendq' = InitialSendQueue(vr)
            /\ dropped' = drp
            /\ UNCHANGED timerFired

\* scanner.Err() == nil after the loop: an attempt without content is empty.
AfterLoop(vr) ==
    IF vr.contentChunkCount = 0
    THEN [vr EXCEPT !.isEmpty = TRUE, !.needsRetry = TRUE, !.retryReason = "empty_response"]
    ELSE vr

\* One iteration of the loop of validateStreamStart whose Scan returned a
\* line of the given kind.
ValidateLine ==
    /\ op = "agStream"
    /\ pc = "validate"
    /\ \E kind \in AntigravityLineKinds :
        /\ ProducesChunks(kind) => Len(body) < MaxContentLines
        /\ LET l      == Len(body) + 1
               chunks == IF kind = "malfix" THEN RepairedChunk(attempt, l)
                         ELSE TranslateStream(attempt, l, kind)
               v1     == [v EXCEPT !.i = @ + 1,
                                   !.bufferedChunks = @ \o chunks,
                                   !.contentChunkCount = @ + Len(chunks)]
               normal == kind \in {"empty", "usage", "text", "multi"}
               break  == normal /\ v1.contentChunkCount > 0
           IN  /\ body' = IF ProducesChunks(kind) THEN Append(body, kind) ELSE body
               /\ reporter' = IF kind = "usage" THEN ReporterPublish(reporter, attempt)
                              ELSE reporter
               /\ IF kind = "malbad" THEN
                      \* repair failed: return at once, marked for retry
                      Conclude([v EXCEPT !.needsRetry = TRUE,
                                         !.retryReason = "MALFORMED_FUNCTION_CALL"],
                               "open", TRUE)
                  ELSE IF break \/ v1.i >= maxValidationChunks THEN
                      Conclude(AfterLoop(IF break THEN [v1 EXCEPT !.i = v.i] ELSE v1),
                               "open", dropped \/ kind = "malnil")
                  ELSE
                      /\ v' = v1
                      /\ dropped' = (dropped \/ kind = "malnil")
                      /\ UNCHANGED <<pc, idx, timerFired, result, fixture, answer,
                                     lastOutcome, scanState,
                                     outCap,
                                     rpc, sendq>>
    /\ UNCHANGED <<auxVars, cfgVars, ctxDone, attempt, doneFed,
                   out, closed, received, consumerActive>>

\* Scan returned false inside the loop of validateStreamStart: end of the
\* body or a read error.
ValidateEnd ==
    /\ op = "agStream"
    /\ pc = "validate"
    /\ \E e \in {"eof", "err"} :
        IF e = "err"
        THEN Conclude([v EXCEPT !.scanErr = TRUE], e, dropped)
        ELSE Conclude(AfterLoop(v), e, dropped)
    /\ UNCHANGED <<auxVars, cfgVars, ctxDone, attempt, body,
                   doneFed, out, closed, received, consumerActive, reporter>>

(* ------------------------ stream reader goroutines ---------------------- *)

\* out <- chunk: on the unbuffered Copilot channel a send completes only with
\* a receiving consumer; on the buffered Antigravity channel it completes
\* while the buffer has room.
ReaderSend ==
    /\ rpc \in {"scan", "finish", "close"}
    /\ sendq # <<>>
    /\ IF outCap = 0
       THEN /\ consumerActive
            /\ received' = Append(received, Head(sendq))
            /\ UNCHANGED out
       ELSE /\ Len(out) < outCap
            /\ out' = Append(out, Head(sendq))
            /\ UNCHANGED received
    /\ sendq' = Tail(sendq)
    /\ UNCHANGED <<auxVars, cfgVars, ctxDone, execVars, valVars, rpc, doneFed, dropped, outCap,
                   closed, consumerActive, reporter>>

\* One v.scanner.Scan() of the Antigravity reader and the handling of its line.
AgReaderScan ==
    /\ op = "agStream"
    /\ rpc = "scan"
    /\ sendq = <<>>
    /\ \/ \* Scan returns false: the scanner had ended, or ends now
          /\ \E e \in {"eof", "err"} :
                scanState' = IF scanState = "open" THEN e ELSE scanState
          /\ rpc' = "tail"
          /\ UNCHANGED <<body, sendq, dropped, reporter>>
       \/ /\ scanState = "open"
          /\ \E kind \in AntigravityLineKinds :
                /\ ProducesChunks(kind) => Len(body) < MaxContentLines
                /\ LET l == Len(body) + 1 IN
                   /\ sendq' = IF kind = "malfix" THEN RepairedChunk(attempt, l)
                               ELSE TranslateStream(attempt, l, kind)
                   /\ body' = IF ProducesChunks(kind) THEN Append(body, kind) ELSE body
                   /\ dropped' = (dropped \/ kind \in {"malnil", "malbad"})
                   /\ reporter' = IF kind = "usage" THEN ReporterPublish(reporter, attempt)
                                  ELSE reporter
          /\ UNCHANGED <<scanState, rpc>>
    /\ UNCHANGED <<auxVars, cfgVars, ctxDone, execVars, v, doneFed, chanVars>>

\* A plausible slip: the sentinel is translated twice.
DoneFeeds_Twice(n) == n + 2

\* Number of "[DONE]" translations after the reader's tail step.
DoneFeeds(n) == n + 1

\* tail := TranslateStream(..., []byte("[DONE]"), &param): the translation of
\* the sentinel is zero or one chunk, depending on the client dialect.
AgReaderTail ==
    /\ op = "agStream"
    /\ rpc = "tail"
    /\ sendq = <<>>
    /\ doneFed' = DoneFeeds(doneFed)
    /\ \E n \in 0..1 :
          sendq' = IF n = 1 THEN <<Chunk(attempt, Len(body) + 1, 1, "done")>> ELSE <<>>
    /\ rpc' = "finish"
    /\ UNCHANGED <<auxVars, cfgVars, ctxDone, execVars, valVars, dropped, chanVars, reporter>>

\* A plausible slip: ensurePublished is called on the failure path too.
FinishReporter_Both(r, a, failed) ==
    IF failed THEN ReporterEnsure(ReporterFailure(r, a), a) ELSE ReporterEnsure(r, a)

\* if errScan := scanner.Err(); errScan != nil { publishFailure } else { ensurePublished }
FinishReporter(r, a, failed) ==
    IF failed THEN ReporterFailure(r, a) ELSE ReporterEnsure(r, a)

\* End of the Antigravity reader: usage latch, and the error chunk on a
\* scanner error.
AgReaderFinish ==
    /\ op = "agStream"
    /\ rpc = "finish"
    /\ sendq = <<>>
    /\ reporter' = FinishReporter(reporter, attempt, scanState = "err")
    /\ sendq' = IF scanState = "err"
                THEN <<Chunk(attempt, Len(body) + 1, 2, "err")>> ELSE <<>>
    /\ rpc' = "close"
    /\ UNCHANGED <<auxVars, cfgVars, ctxDone, execVars, valVars, doneFed, dropped, chanVars>>

\* The deferred calls of the reader goroutine: close the body, close(out).
ReaderClose ==
    /\ rpc = "close"
    /\ sendq = <<>>
    /\ closed' = TRUE
    /\ rpc' = "closed"
    /\ UNCHANGED <<auxVars, cfgVars, ctxDone, execVars, valVars, sendq, doneFed, dropped, out,
                   outCap, received, consumerActive, reporter>>

(* ------------------------------ environment ---------------------------- *)

\* The consumer takes the next chunk from the channel buffer.
ConsumerReceive ==
    /\ consumerActive
    /\ out # <<>>
    /\ received' = Append(received, Head(out))
    /\ out' = Tail(out)
    /\ UNCHANGED <<auxVars, cfgVars, ctxDone, execVars, valVars, readerVars, outCap, closed,
                   consumerActive, reporter>>

\* The consumer stops receiving without draining the channel; it does so
\* only once the request context is cancelled (client gone).
ConsumerStop ==
    /\ result.kind = "stream"
    /\ ctxDone
    /\ consumerActive
    /\ consumerActive' = FALSE
    /\ UNCHANGED <<auxVars, cfgVars, ctxDone, execVars, valVars, readerVars, out, outCap, closed,
                   received, reporter>>

\* The request context is cancelled.
CtxCancel ==
    /\ ~ctxDone
    /\ ctxDone' = TRUE
    /\ UNCHANGED <<auxVars, cfgVars, execVars, valVars, readerVars, chanVars, reporter>>

(* ------------------------ Copilot ExecuteStream ------------------------ *)

\* httpClient.Do of GitHubCopilotExecutor.ExecuteStream and what follows up
\* to the return: any error or non-2xx status is returned, a 2xx starts the
\* reader goroutine on an unbuffered channel.
CopilotRequest ==
    /\ op = "cpStream"
    /\ pc = "request"
    /\ \E o \in Outcomes :
        /\ (o.t = "ctxerr") <=> ctxDone
        /\ Answered(AnswerClass(o))
        /\ lastOutcome' = o
        /\ pc' = "returned"
        /\ IF o.t # "http" THEN
                /\ result' = plainErr(IF o.t = "ctxerr" THEN "context" ELSE o.t)
                /\ UNCHANGED <<scanState, rpc>>
           ELSE IF o.status # StatusOK THEN
                /\ result' = [statusErr(o.status, o.body) EXCEPT !.retryAfter = <<>>]
                /\ UNCHANGED <<scanState, rpc>>
           ELSE /\ result' = StreamResult
                /\ scanState' = "open"
                /\ rpc' = "scan"
    /\ UNCHANGED <<auxVars, cfgVars, ctxDone, attempt, idx, 
                   timerFired, v, body, sendq, doneFed, dropped, chanVars, reporter>>

\* One scanner.Scan() of the Copilot reader: a "data: [DONE]" line is
\* skipped, every other line is translated and its chunks are sent.
CpReaderScan ==
    /\ op = "cpStream"
    /\ rpc = "scan"
    /\ sendq = <<>>
    /\ \/ /\ \E e \in {"eof", "err"} :
                scanState' = IF scanState = "open" THEN e ELSE scanState
          /\ rpc' = "finish"
          /\ UNCHANGED <<body, sendq, reporter>>
       \/ /\ scanState = "open"
          /\ \E kind \in CopilotLineKinds :
                /\ ProducesChunks(kind) => Len(body) < MaxContentLines
                /\ sendq' = TranslateStream(attempt, Len(body) + 1, kind)
                /\ body' = IF ProducesChunks(kind) THEN Append(body, kind) ELSE body
                /\ reporter' = IF kind = "usage" THEN ReporterPublish(reporter, attempt)
                               ELSE reporter
          /\ UNCHANGED <<scanState, rpc>>
    /\ UNCHANGED <<auxVars, cfgVars, ctxDone, execVars, v, doneFed, dropped, chanVars>>

\* End of the Copilot reader.
CpReaderFinish ==
    /\ op = "cpStream"
    /\ rpc = "finish"
    /\ sendq = <<>>
    /\ reporter' = FinishReporter(reporter, attempt, scanState = "err")
    /\ sendq' = IF scanState = "err"
                THEN <<Chunk(attempt, Len(body) + 1, 2, "err")>> ELSE <<>>
    /\ rpc' = "close"
    /\ UNCHANGED <<auxVars, cfgVars, ctxDone, execVars, valVars, doneFed, dropped, chanVars>>

(* ----------------------- Antigravity Execute --------------------------- *)

\* One iteration of the base-URL loop of Execute (non-streaming, non-Claude).
ExecuteRequest ==
    /\ op = "agExecute"
    /\ pc = "request"
    /\ \E o \in Outcomes :
        /\ (o.t = "ctxerr") <=> ctxDone
        /\ Answered(AnswerClass(o))
        /\ lastOutcome' = o
        /\ IF isContextCanceled(o) THEN
                /\ pc' = "returned"
                /\ result' = plainErr("context")
                /\ UNCHANGED <<idx, reporter>>
           ELSE IF o.t = "neterr" THEN
                /\ IF idx + 1 < Len(baseURLs)
                   THEN idx' = idx + 1 /\ UNCHANGED <<pc, result>>
                   ELSE pc' = "returned" /\ result' = plainErr(o.t) /\ UNCHANGED idx
                /\ UNCHANGED reporter
           ELSE IF o.t = "readerr" THEN
                /\ pc' = "returned"
                /\ result' = plainErr(o.t)
                /\ UNCHANGED <<idx, reporter>>
           ELSE IF o.status < StatusOK \/ o.status >= StatusMultipleChoices THEN
                /\ IF ExecuteStatusDecision(o.status, idx) = "next"
                   THEN idx' = idx + 1 /\ UNCHANGED <<pc, result>>
                   ELSE /\ pc' = "returned"
                        /\ result' = statusErr(o.status, o.body)
                        /\ UNCHANGED idx
                /\ UNCHANGED reporter
           ELSE \* 2xx: publish the parsed usage (if any), translate, ensurePublished
                /\ pc' = "returned"
                /\ result' = ResponseResult
                /\ \E hasUsage \in BOOLEAN :
                      reporter' = ReporterEnsure(
                          IF hasUsage THEN ReporterPublish(reporter, attempt) ELSE reporter,
                          attempt)
                /\ UNCHANGED <<idx>>
    /\ UNCHANGED <<auxVars, cfgVars, ctxDone, attempt, timerFired, valVars, readerVars, chanVars>>

(* ---------------------------- specification ---------------------------- *)

Next ==
    \/ StreamRequest
    \/ TimerFire
    \/ StreamWait
    \/ ValidateLine
    \/ ValidateEnd
    \/ ReaderSend
    \/ AgReaderScan
    \/ AgReaderTail
    \/ AgReaderFinish
    \/ ReaderClose
    \/ ConsumerReceive
    \/ ConsumerStop
    \/ CtxCancel
    \/ CopilotRequest
    \/ CpReaderScan
    \/ CpReaderFinish
    \/ ExecuteRequest

Spec == Init /\ [][Next]_vars

(* ---------------------- helper functions under study -------------------- *)

\* No executor call is in progress: the state of Init with no operation.
Quiescent ==
    /\ op = "none"
    /\ attempts = 1
    /\ baseURLs = <<"custom">>
    /\ ctxDone = FALSE
    /\ pc = "idle"
    /\ attempt = 0
    /\ idx = 0
    /\ timerFired = FALSE
    /\ result = NoResult
    /\ fixture = <<"off", 0>>
    /\ answer = ""
    /\ lastOutcome = NoOutcome
    /\ v = NewValidation
    /\ scanState = "none"
    /\ body = <<>>
    /\ rpc = "idle"
    /\ sendq = <<>>
    /\ doneFed = 0
    /\ dropped = FALSE
    /\ out = <<>>
    /\ outCap = 0
    /\ closed = FALSE
    /\ received = <<>>
    /\ consumerActive = FALSE
    /\ reporter = NewReporter

IntSamples == ((-2)..MaxSample) \cup {MinInt, MinInt + 1, MaxInt - 1, MaxInt}

\* An optional int: <<>> (absent) or <<n>>.
OptInt == {<<>>} \cup {<<n>> : n \in IntSamples}

RetryAttemptsCalls ==
    [fn : {"antigravityRetryAttempts"}, cfg : OptInt, override : OptInt]

RetryDelayCalls ==
    [fn : {"antigravityNoCapacityRetryDelay"}, a : IntSamples, b : IntSamples]

\* The pieces model names are made of: the prefixes the code looks for,
\* parts of them, and other text.
Segments ==
    {CopilotPrefix, ClaudePrefix, GPT5Prefix,
     <<"c", "o", "p", "i", "l", "o", "t">>, <<"c", "l", "a", "u", "d", "e">>,
     <<"g", "p", "t", "-">>, <<"5">>, <<"-">>, <<"4", "o">>}

RECURSIVE Concat(_)
Concat(ss) == IF ss = <<>> THEN <<>> ELSE Head(ss) \o Concat(Tail(ss))

ModelNames ==
    {Concat(ss) : ss \in UNION {[1..k -> Segments] : k \in 0..MaxSegments}}

CopilotRouteCalls == [fn : {"copilotRoute"}, model : ModelNames]

\* The registry's view of a model: unknown, or its completion limit and,
\* for a thinking model, the range of its thinking budget.
ThinkingRanges == {[Min |-> lo, Max |-> lo + w] : lo \in {0, 2, 4}, w \in {0, 2, 4}}

ModelInfos ==
    {Absent} \cup
    {<<[Thinking |-> t, MaxCompletionTokens |-> m]>> :
        t \in {Absent} \cup {<<r>> : r \in ThinkingRanges}, m \in {0, 5}}

\* thinking.type: missing (""), a known or unknown word, or "disabled" in
\* another spelling.
ThinkingTypes ==
    [text : {"", "enabled", "disabled", "adaptive"}, exact : {TRUE}]
        \cup {[text |-> "disabled", exact |-> FALSE]}

OptSmallInt == {Absent} \cup {<<n>> : n \in (-1)..MaxSample}

ClaudeBodies ==
    [max_tokens : OptSmallInt,
     thinking : {Absent} \cup
                {<<t>> : t \in [type : ThinkingTypes, budget_tokens : OptSmallInt]},
     other : {"messages"}]

NormalizeThinkingCalls ==
    [fn : {"normalizeCopilotClaudeThinking"}, info : ModelInfos, body : ClaudeBodies]

PureInit ==
    /\ Quiescent
    /\ TokenIdle
    /\ CacheIdle
    /\ OnboardIdle
    /\ AuthIdle
    /\ call \in RetryAttemptsCalls \cup RetryDelayCalls \cup CopilotRouteCalls
                \cup NormalizeThinkingCalls
    /\ ret = NoRet

\* attempts := antigravityRetryAttempts(auth, cfg)
ApplyRetryAttempts ==
    /\ call.fn = "antigravityRetryAttempts"
    /\ ret = NoRet
    /\ ret' = <<antigravityRetryAttempts(configuredRetry(call.cfg, call.override))>>
    /\ UNCHANGED <<streamVars, call, onboardVars, authVars, tokenVars, cacheVars>>

\* delay := antigravityNoCapacityRetryDelay(attempt), for two attempts a, b
ApplyRetryDelay ==
    /\ call.fn = "antigravityNoCapacityRetryDelay"
    /\ ret = NoRet
    /\ ret' = <<antigravityNoCapacityRetryDelay(call.a),
                antigravityNoCapacityRetryDelay(call.b)>>
    /\ UNCHANGED <<streamVars, call, onboardVars, authVars, tokenVars, cacheVars>>

\* Execute / ExecuteStream of the Copilot executor, from the choice of the
\* target format to the URL: to := FromString(toFormat);
\* url := githubCopilotBaseURL + getEndpointPath(req.Model, to)
ApplyCopilotRoute ==
    /\ call.fn = "copilotRoute"
    /\ ret = NoRet
    /\ LET to == FromString(toFormat(call.model))
       IN  ret' = <<to.format, getEndpointPath(call.model, to)>>
    /\ UNCHANGED <<streamVars, call, onboardVars, authVars, tokenVars, cacheVars>>

\* body = normalizeCopilotClaudeThinking(req.Model, body)
ApplyNormalizeThinking ==
    /\ call.fn = "normalizeCopilotClaudeThinking"
    /\ ret = NoRet
    /\ ret' = <<normalizeCopilotClaudeThinking(call.info, call.body)>>
    /\ UNCHANGED <<streamVars, call, onboardVars, authVars, tokenVars, cacheVars>>

PureNext ==
    \/ ApplyRetryAttempts
    \/ ApplyRetryDelay
    \/ ApplyCopilotRoute
    \/ ApplyNormalizeThinking

PureSpec == PureInit /\ [][PureNext]_vars

(* ------------- Antigravity token: ensureAccessToken / Refresh ----------- *)

\* The clock at the call.
Now0 == 10000 * Second

AccessTokenValues ==
    {Nil, Str(FALSE, "tok0", 0), Str(TRUE, "tok0", 0), Str(TRUE, "", 0)}

RefreshTokenValues == {Nil, Str(FALSE, "r0", 0)}

\* "expired": absent, not a time, or a time around now + refreshSkew.
ExpiredValues ==
    {Nil, Str(FALSE, "garbage", 0)}
        \cup {Str(FALSE, "rfc3339", Now0 + refreshSkew + d * Second) : d \in (-1)..1}

ExpiresInValues ==
    {Nil, Int64(refreshSkew \div Second), Str(FALSE, "digits", refreshSkew \div Second)}

TimestampValues == {Nil, Int64(Now0), Int64(Now0 + 1)}

ProjectValues == {Nil, Str(FALSE, "proj0", 0)}

MetadataValues ==
    [access_token : AccessTokenValues, refresh_token : RefreshTokenValues,
     expired : ExpiredValues, expires_in : ExpiresInValues,
     timestamp : TimestampValues, project_id : ProjectValues,
     type : {Str(FALSE, "antigravity", 0)}]

AttributeValues == [base_url : {Str(FALSE, "custom", 0)}]

\* The caller's Auth and the maps it points to: nil, with a nil Metadata, or
\* with Metadata at address 1; Attributes at address 2.
CallerAuths ==
    {[auth |-> NilAuth, heap |-> <<>>]}
        \cup {[auth |-> [isNil |-> FALSE, meta |-> NilMap, attrs |-> 2],
               heap |-> (2 :> t)] : t \in AttributeValues}
        \cup {[auth |-> [isNil |-> FALSE, meta |-> 1, attrs |-> 2],
               heap |-> (1 :> m) @@ (2 :> t)] :
                   m \in MetadataValues, t \in AttributeValues}

\* The value "modelgate.roundtripper" of the request context: absent, an
\* http.RoundTripper, or a value of another type.
RequestContexts == [done : {FALSE}, at : {""}, rt : {"none", "rt0", "other"}]

TokenInit ==
    /\ Quiescent
    /\ call = NoCall
    /\ ret = NoRet
    /\ clock = Now0
    /\ \E c \in CallerAuths : callerAuth = c.auth /\ heap = c.heap
    /\ cloneAuth = NilAuth
    /\ tokOp \in {"ensureAccessToken", "Refresh"}
    /\ tokPc = "call"
    /\ reqCtx \in RequestContexts
    /\ refreshCtx = NoContext
    /\ tokRet = NoTokRet
    /\ CacheIdle
    /\ OnboardIdle
    /\ AuthIdle

\* What the token endpoint and the project lookup answer to one refresh.
RefreshAnswers ==
    [t : {"neterr", "readerr", "badjson"}, status : {0}, access_token : {""},
     refresh_token : {""}, expires_in : {0}, project : {"err"}]
        \cup [t : {"http"}, status : {400, StatusTooManyRequests}, access_token : {""},
              refresh_token : {""}, expires_in : {0}, project : {"err"}]
        \cup [t : {"http"}, status : {StatusOK}, access_token : {"tok1"},
              refresh_token : {"", "r1"}, expires_in : {3599},
              project : {"err", "", "proj1"}]

\* time.Time.Format(time.RFC3339): whole seconds.
FormatRFC3339(t) == (t \div Second) * Second

\* ensureAntigravityProjectID(ctx, auth, accessToken) on the metadata md
ensureAntigravityProjectID(md, accessToken, project) ==
    IF md.project_id.ty # "nil" THEN md
    ELSE IF accessToken = "" /\ md.access_token.text = "" THEN md
    ELSE IF project \in {"err", ""} THEN md
    ELSE [md EXCEPT !.project_id = Str(FALSE, project, 0)]

\* refreshToken after a 2xx answer with a well-formed body: the writes to
\* auth.Metadata.
RefreshedMetadata(md, o, now) ==
    ensureAntigravityProjectID(
        [md EXCEPT !.access_token = Str(FALSE, o.access_token, 0),
                   !.refresh_token =
                       IF o.refresh_token # "" THEN Str(FALSE, o.refresh_token, 0) ELSE @,
                   !.expires_in = Int64(o.expires_in),
                   !.timestamp = Int64(now),
                   !.expired = Str(FALSE, "rfc3339",
                                   FormatRFC3339(now + o.expires_in * Second)),
                   !.type = Str(FALSE, "antigravity", 0)],
        o.access_token, o.project)

\* refreshToken(c, auth.Clone()) up to httpClient.Do; on an error both
\* ensureAccessToken and Refresh return a nil Auth with it.
RefreshTokenStart(c) ==
    LET cl == Clone(heap, callerAuth)
    IN  /\ heap' = cl.heap
        /\ cloneAuth' = cl.auth
        /\ refreshCtx' = c
        /\ IF metaStringValue(cl.heap, cl.auth.meta, "refresh_token") = ""
           THEN /\ tokPc' = "returned"
                /\ tokRet' = TokRet("", NilAuth, "status", 401)
           ELSE /\ tokPc' = "inflight"
                /\ UNCHANGED tokRet

\* ensureAccessToken(ctx, auth) up to its return or to httpClient.Do of the
\* refresh.
EnsureAccessTokenCall ==
    /\ tokOp = "ensureAccessToken"
    /\ tokPc = "call"
    /\ IF callerAuth.isNil
       THEN /\ tokPc' = "returned"
            /\ tokRet' = TokRet("", NilAuth, "status", 401)
            /\ UNCHANGED <<heap, cloneAuth, refreshCtx>>
       ELSE LET accessToken == metaStringValue(heap, callerAuth.meta, "access_token")
                expiry      == tokenExpiry(heap, callerAuth.meta)
            IN  IF StoredTokenFresh(accessToken, expiry, clock)
                THEN /\ tokPc' = "returned"
                     /\ tokRet' = TokRet(accessToken, NilAuth, "none", 0)
                     /\ UNCHANGED <<heap, cloneAuth, refreshCtx>>
                ELSE RefreshTokenStart(RefreshContext(reqCtx))
    /\ UNCHANGED <<streamVars, pureVars, onboardVars, authVars, cacheVars, clock, callerAuth, tokOp, reqCtx>>

\* Refresh(ctx, auth) up to its return or to httpClient.Do of the refresh.
RefreshCall ==
    /\ tokOp = "Refresh"
    /\ tokPc = "call"
    /\ IF callerAuth.isNil
       THEN /\ tokPc' = "returned"
            /\ tokRet' = TokRet("", callerAuth, "none", 0)
            /\ UNCHANGED <<heap, cloneAuth, refreshCtx>>
       ELSE RefreshTokenStart(InboundContext(reqCtx))
    /\ UNCHANGED <<streamVars, pureVars, onboardVars, authVars, cacheVars, clock, callerAuth, tokOp, reqCtx>>

\* refreshToken from the return of httpClient.Do to the return of the token
\* operation.
RefreshTokenRespond ==
    /\ tokPc = "inflight"
    /\ tokPc' = "returned"
    /\ \E o \in RefreshAnswers :
          IF ContextDone(refreshCtx, reqCtx)
          THEN /\ tokRet' = TokRet("", NilAuth, "ctxerr", 0)
               /\ UNCHANGED heap
          ELSE IF o.t # "http"
          THEN /\ tokRet' = TokRet("", NilAuth, o.t, 0)
               /\ UNCHANGED heap
          ELSE IF o.status < StatusOK \/ o.status >= StatusMultipleChoices
          THEN /\ tokRet' = TokRet("", NilAuth, "status", o.status)
               /\ UNCHANGED heap
          ELSE /\ heap' = [heap EXCEPT ![cloneAuth.meta] = RefreshedMetadata(@, o, clock)]
               /\ tokRet' = TokRet(
                      IF tokOp = "ensureAccessToken"
                      THEN metaStringValue(heap', cloneAuth.meta, "access_token")
                      ELSE "",
                      cloneAuth, "none", 0)
    /\ UNCHANGED <<streamVars, pureVars, onboardVars, authVars, cacheVars, clock, callerAuth, cloneAuth, tokOp,
                   reqCtx, refreshCtx>>

\* The caller cancels the request context while the operation runs.
CancelRequestContext ==
    /\ tokOp # "none"
    /\ tokPc # "returned"
    /\ ~reqCtx.done
    /\ reqCtx' = [reqCtx EXCEPT !.done = TRUE, !.at = tokPc]
    /\ UNCHANGED <<streamVars, pureVars, onboardVars, authVars, cacheVars, clock, heap, callerAuth, cloneAuth, tokOp,
                   tokPc, refreshCtx, tokRet>>

TokenNext ==
    \/ EnsureAccessTokenCall
    \/ RefreshCall
    \/ RefreshTokenRespond
    \/ CancelRequestContext

TokenSpec == TokenInit /\ [][TokenNext]_vars

(* ------------------ Copilot API token cache: ensureAPIToken ------------- *)

CacheInit ==
    /\ Quiescent
    /\ call = NoCall
    /\ ret = NoRet
    /\ clock = Now0
    /\ heap = <<>>
    /\ callerAuth = NilAuth
    /\ cloneAuth = NilAuth
    /\ tokOp = "none"
    /\ tokPc = "returned"
    /\ reqCtx = [done |-> FALSE, at |-> "", rt |-> "none"]
    /\ refreshCtx = NoContext
    /\ tokRet = NoTokRet
    /\ CacheIdle
    /\ OnboardIdle
    /\ AuthIdle

\* The auth of a call, by what metaStringValue(auth.Metadata, "access_token")
\* gives: a nil Auth, no GitHub access token, or one of the tokens in use.
APICallAuths == {"nil", ""} \cup AccessKeys

TickStep == 5 * Minute

\* apiToken.ExpiresAt of an upstream answer at time now (Unix seconds):
\* none, negative, or a time one TickStep from now, or a second later.
UpstreamExpiresAt(now) ==
    {0, -1, (now + TickStep) \div Second, (now + TickStep) \div Second + 1}

\* The Copilot API token the upstream issues for key at time now.
UpstreamToken(key, now) == <<key, now>>

\* A plausible slip: an entry is used up to and including the buffer.
CacheHit_NonStrict(entry, now) ==
    entry.present /\ entry.expiresAt >= now + tokenExpiryBuffer

\* cached, ok := e.cache[accessToken];
\* ok && cached.expiresAt.After(time.Now().Add(tokenExpiryBuffer))
CacheHit(entry, now) ==
    entry.present /\ entry.expiresAt > now + tokenExpiryBuffer

\* expiresAt of the entry stored for an upstream answer
StoredExpiresAt(upstreamExpiresAt, now) ==
    IF upstreamExpiresAt > 0
    THEN upstreamExpiresAt * Second
    ELSE now + githubCopilotTokenCacheTTL

\* ensureAPIToken(ctx, auth) up to its return or to GetCopilotAPIToken.
EnsureAPITokenCall(c) ==
    /\ callers[c].pc = "idle"
    /\ \E a \in APICallAuths :
          IF a \in {"nil", ""}
          THEN /\ apiRet' = APIRet("401", c, "", <<>>, 0)
               /\ UNCHANGED callers
          ELSE IF CacheHit(cache[a], clock)
          THEN /\ apiRet' = APIRet("cached", c, a, cache[a].token, 0)
               /\ UNCHANGED callers
          ELSE /\ apiRet' = NoAPIRet
               /\ callers' = [callers EXCEPT ![c] = [pc |-> "fetching", key |-> a]]
    /\ UNCHANGED <<streamVars, pureVars, onboardVars, authVars, tokenVars, cache>>

\* A plausible slip: a failed fetch evicts the entry of the access token.
GetCopilotAPITokenRespond_Evict(c) ==
    /\ callers[c].pc = "fetching"
    /\ callers' = [callers EXCEPT ![c] = [pc |-> "idle", key |-> ""]]
    /\ \/ /\ apiRet' = APIRet("401", c, callers[c].key, <<>>, 0)
          /\ cache' = [cache EXCEPT ![callers[c].key] = NoEntry]
       \/ \E x \in UpstreamExpiresAt(clock) :
             LET token == UpstreamToken(callers[c].key, clock)
             IN  /\ cache' = [cache EXCEPT ![callers[c].key] =
                                  cachedAPIToken(token, StoredExpiresAt(x, clock))]
                 /\ apiRet' = APIRet("fetched", c, callers[c].key, token, x)
    /\ UNCHANGED <<streamVars, pureVars, onboardVars, authVars, tokenVars>>

\* ensureAPIToken from the return of GetCopilotAPIToken to its own return.
GetCopilotAPITokenRespond(c) ==
    /\ callers[c].pc = "fetching"
    /\ callers' = [callers EXCEPT ![c] = [pc |-> "idle", key |-> ""]]
    /\ \/ /\ apiRet' = APIRet("401", c, callers[c].key, <<>>, 0)
          /\ UNCHANGED cache
       \/ \E x \in UpstreamExpiresAt(clock) :
             LET token == UpstreamToken(callers[c].key, clock)
             IN  /\ cache' = [cache EXCEPT ![callers[c].key] =
                                  cachedAPIToken(token, StoredExpiresAt(x, clock))]
                 /\ apiRet' = APIRet("fetched", c, callers[c].key, token, x)
    /\ UNCHANGED <<streamVars, pureVars, onboardVars, authVars, tokenVars>>

\* Time passes, TickStep at a time.
Tick ==
    /\ clock < Now0 + MaxTicks * TickStep
    /\ clock' = clock + TickStep
    /\ apiRet' = NoAPIRet
    /\ UNCHANGED <<streamVars, pureVars, onboardVars, authVars, heap, callerAuth, cloneAuth, tokOp, tokPc,
                   reqCtx, refreshCtx, tokRet, cache, callers>>

CacheNext ==
    \/ \E c \in Callers : EnsureAPITokenCall(c)
    \/ \E c \in Callers : GetCopilotAPITokenRespond(c)
    \/ Tick

CacheSpec == CacheInit /\ [][CacheNext]_vars

(* ---------------------- payload rules: model globs ---------------------- *)

\* A pattern or model name has at most MaxGlobLen characters.
MaxGlobLen == 3

\* strings.TrimSpace on a string as a sequence of characters
RECURSIVE TrimLeftSeq(_)
TrimLeftSeq(s) ==
    IF s # <<>> /\ Head(s) = " " THEN TrimLeftSeq(Tail(s)) ELSE s

RECURSIVE TrimRightSeq(_)
TrimRightSeq(s) ==
    IF s # <<>> /\ s[Len(s)] = " " THEN TrimRightSeq(SubSeq(s, 1, Len(s) - 1)) ELSE s

TrimSpaceSeq(s) == TrimRightSeq(TrimLeftSeq(s))

\* The two loops of matchModelPattern, with pi, si, starIdx and matchIdx as
\* in the code (0-based; pattern[pi] is p[pi + 1]).
RECURSIVE matchLoop(_, _, _, _, _, _)
matchLoop(p, s, pi, si, starIdx, matchIdx) ==
    IF si < Len(s)
    THEN IF pi < Len(p) /\ p[pi + 1] = s[si + 1]
         THEN matchLoop(p, s, pi + 1, si + 1, starIdx, matchIdx)
         ELSE IF pi < Len(p) /\ p[pi + 1] = "*"
         THEN matchLoop(p, s, pi + 1, si, pi, si)
         ELSE IF starIdx # -1
         THEN matchLoop(p, s, starIdx + 1, matchIdx + 1, starIdx, matchIdx + 1)
         ELSE FALSE
    ELSE IF pi < Len(p) /\ p[pi + 1] = "*"
         THEN matchLoop(p, s, pi + 1, si, starIdx, matchIdx)
         ELSE pi = Len(p)

\* matchModelPattern(pattern, model)
matchModelPattern(pattern, model) ==
    LET p == TrimSpaceSeq(pattern)
        s == TrimSpaceSeq(model)
    IN  IF p = <<>> THEN FALSE
        ELSE IF p = <<"*">> THEN TRUE
        ELSE matchLoop(p, s, 0, 0, -1, 0)

\* No executor, token or cache operation is in progress.
AllIdle == Quiescent /\ TokenIdle /\ CacheIdle /\ OnboardIdle /\ AuthIdle

\* The strings of at most n characters over an alphabet.
StringsOver(alphabet, n) == UNION {[1..k -> alphabet] : k \in 0..n}

GlobCalls ==
    [fn : {"matchModelPattern"},
     pattern : StringsOver({"a", "b", "*", " "}, MaxGlobLen),
     model : StringsOver({"a", "b", "*"}, MaxGlobLen)]

GlobInit ==
    /\ AllIdle
    /\ call \in GlobCalls
    /\ ret = NoRet

\* matchModelPattern(name, model)
ApplyMatchModelPattern ==
    /\ call.fn = "matchModelPattern"
    /\ ret = NoRet
    /\ ret' = <<matchModelPattern(call.pattern, call.model)>>
    /\ UNCHANGED <<streamVars, call, onboardVars, authVars, tokenVars, cacheVars>>

GlobNext == ApplyMatchModelPattern

GlobSpec == GlobInit /\ [][GlobNext]_vars

(* --------------------- payload rules: rule matching --------------------- *)

\* A model name without its suffix has at most MaxNameLen characters.
MaxNameLen == 2

\* strings.ToLower, on a character and on a string
LowerChar(c) == IF c = "A" THEN "a" ELSE IF c = "O" THEN "o" ELSE c

ToLowerSeq(s) == [i \in 1..Len(s) |-> LowerChar(s[i])]

\* strings.EqualFold(a, b)
EqualFold(a, b) == ToLowerSeq(a) = ToLowerSeq(b)

\* The position of the last "(" of s, 0 when there is none.
RECURSIVE LastOpen(_, _)
LastOpen(s, i) ==
    IF i = 0 THEN 0 ELSE IF s[i] = "(" THEN i ELSE LastOpen(s, i - 1)

\* thinking.ParseSuffix(model): a name that ends in "(...)" has a suffix,
\* and its ModelName is what precedes the last "(".
ParseSuffix(s) ==
    IF s # <<>> /\ s[Len(s)] = ")" /\ LastOpen(s, Len(s)) > 0
    THEN [ModelName |-> SubSeq(s, 1, LastOpen(s, Len(s)) - 1), HasSuffix |-> TRUE]
    ELSE [ModelName |-> s, HasSuffix |-> FALSE]

\* addCandidate of payloadModelCandidates: the trimmed value is appended
\* unless it is blank or equals, ignoring case, a candidate already there.
addCandidate(candidates, value) ==
    LET val == TrimSpaceSeq(value)
    IN  IF val = <<>> THEN candidates
        ELSE IF \E i \in 1..Len(candidates) :
                    ToLowerSeq(candidates[i]) = ToLowerSeq(val)
        THEN candidates
        ELSE Append(candidates, val)

\* payloadModelCandidates(model, requestedModel)
payloadModelCandidates(modelArg, requestedArg) ==
    LET model     == TrimSpaceSeq(modelArg)
        requested == TrimSpaceSeq(requestedArg)
        c1 == IF model # <<>> THEN addCandidate(<<>>, model) ELSE <<>>
        parsed == ParseSuffix(requested)
        base   == TrimSpaceSeq(parsed.ModelName)
        c2 == IF requested # <<>> /\ base # <<>> THEN addCandidate(c1, base) ELSE c1
        c3 == IF requested # <<>> /\ parsed.HasSuffix
              THEN addCandidate(c2, requested) ELSE c2
    IN  c3

\* The entry passes the name and protocol tests of payloadModelRulesMatch.
EntryEligible(entry, protocol) ==
    /\ TrimSpaceSeq(entry.Name) # <<>>
    /\ ~(/\ TrimSpaceSeq(entry.Protocol) # <<>>
         /\ protocol # <<>>
         /\ ~EqualFold(TrimSpaceSeq(entry.Protocol), protocol))

\* payloadModelRulesMatch(rules, protocol, models)
payloadModelRulesMatch(rules, protocol, models) ==
    /\ Len(rules) # 0
    /\ Len(models) # 0
    /\ \E i \in 1..Len(models), j \in 1..Len(rules) :
          /\ EntryEligible(rules[j], protocol)
          /\ matchModelPattern(rules[j].Name, models[i])

(* ------------------- payload rules: applying the rules ------------------- *)

\* JSON values, and the Go values a rule carries (GoStr(n) is the string
\* whose text is the digits of n).
JNull == [t |-> "null", v |-> 0]

JNum(n) == [t |-> "number", v |-> n]

JStr(n) == [t |-> "string", v |-> n]

GoNil == [t |-> "nil", v |-> 0]

GoInt(n) == [t |-> "int", v |-> n]

GoStr(n) == [t |-> "str", v |-> n]

\* The JSON value sjson.SetBytes stores for a Go value (json.Marshal).
Marshal(value) ==
    IF value.t = "nil" THEN JNull
    ELSE IF value.t = "str" THEN JStr(value.v)
    ELSE JNum(value.v)

\* jsonutil.RawValue(value): nil has no raw form, a string is raw JSON as
\* it stands (its digits read as a number), anything else is marshalled.
RawValue(value) ==
    IF value.t = "nil" THEN [raw |-> JNull, ok |-> FALSE]
    ELSE IF value.t = "str" THEN [raw |-> JNum(value.v), ok |-> TRUE]
    ELSE [raw |-> Marshal(value), ok |-> TRUE]

\* A dotted path is the sequence of its segments.
RECURSIVE SplitDots(_)
SplitDots(s) ==
    IF s = <<>> THEN << <<>> >>
    ELSE LET rest == SplitDots(Tail(s))
         IN  IF Head(s) = "." THEN << <<>> >> \o rest
             ELSE << <<Head(s)>> \o rest[1] >> \o Tail(rest)

IsPrefix(p, q) == Len(p) <= Len(q) /\ SubSeq(q, 1, Len(p)) = p

\* A JSON document is the set of its leaves [path, val].
\* gjson.GetBytes(doc, path).Exists()
Exists(doc, path) ==
    \E l \in doc : IsPrefix(SplitDots(path), l.path)

\* sjson.SetBytes / sjson.SetRawBytes with the JSON value val
SetJSON(doc, path, val) ==
    LET p == SplitDots(path)
    IN  {l \in doc : ~IsPrefix(p, l.path) /\ ~IsPrefix(l.path, p)}
            \cup {[path |-> p, val |-> val]}

\* sjson.DeleteBytes(doc, path)
DeleteJSON(doc, path) ==
    {l \in doc : ~IsPrefix(SplitDots(path), l.path)}

\* A plausible slip: the root is ignored.
buildPayloadPath_NoRoot(root, path) == TrimSpaceSeq(path)

\* buildPayloadPath(root, path)
buildPayloadPath(root, path) ==
    LET r == TrimSpaceSeq(root)
        p == TrimSpaceSeq(path)
    IN  IF r = <<>> THEN p
        ELSE IF p = <<>> THEN r
        ELSE r \o <<".">> \o (IF HasPrefix(p, <<".">>) THEN Tail(p) ELSE p)

\* A plausible slip: the absence test looks at the working payload.
DefaultSource_Working(payload, original) == payload

\* source := original; if len(source) == 0 { source = payload }
DefaultSource(payload, original) ==
    IF original.empty THEN payload ELSE original

\* The body of the loops over rule.Params of the default and default-raw
\* rules; st is [out, applied], params the entries in iteration order.
RECURSIVE DefaultParams(_, _, _, _, _)
DefaultParams(st, params, root, source, raw) ==
    IF params = <<>> THEN st
    ELSE LET fullPath == buildPayloadPath(root, Head(params).key)
             value    == Head(params).value
             rest     == Tail(params)
         IN  IF fullPath = <<>> THEN DefaultParams(st, rest, root, source, raw)
             ELSE IF Exists(source, fullPath)
             THEN DefaultParams(st, rest, root, source, raw)
             ELSE IF fullPath \in st.applied
             THEN DefaultParams(st, rest, root, source, raw)
             ELSE IF raw /\ ~RawValue(value).ok
             THEN DefaultParams(st, rest, root, source, raw)
             ELSE DefaultParams(
                      [out |-> SetJSON(st.out, fullPath,
                                       IF raw THEN RawValue(value).raw
                                       ELSE Marshal(value)),
                       applied |-> st.applied \cup {fullPath}],
                      rest, root, source, raw)

\* A plausible slip: a later default overwrites an earlier one.
RECURSIVE DefaultRules_LastWins(_, _, _, _, _, _, _)
DefaultRules_LastWins(st, rules, protocol, candidates, root, source, raw) ==
    IF rules = <<>> THEN st
    ELSE DefaultRules_LastWins(
             IF payloadModelRulesMatch(Head(rules).Models, protocol, candidates)
             THEN [DefaultParams([st EXCEPT !.applied = {}], Head(rules).Params,
                                 root, source, raw) EXCEPT !.applied = {}]
             ELSE st,
             Tail(rules), protocol, candidates, root, source, raw)

\* The loop over rules.Default (raw FALSE) or rules.DefaultRaw (raw TRUE)
RECURSIVE DefaultRules(_, _, _, _, _, _, _)
DefaultRules(st, rules, protocol, candidates, root, source, raw) ==
    IF rules = <<>> THEN st
    ELSE DefaultRules(
             IF payloadModelRulesMatch(Head(rules).Models, protocol, candidates)
             THEN DefaultParams(st, Head(rules).Params, root, source, raw)
             ELSE st,
             Tail(rules), protocol, candidates, root, source, raw)

\* The body of the loops over rule.Params of the override and override-raw
\* rules.
RECURSIVE OverrideParams(_, _, _, _)
OverrideParams(doc, params, root, raw) ==
    IF params = <<>> THEN doc
    ELSE LET fullPath == buildPayloadPath(root, Head(params).key)
             value    == Head(params).value
         IN  IF fullPath = <<>> THEN OverrideParams(doc, Tail(params), root, raw)
             ELSE IF raw /\ ~RawValue(value).ok
             THEN OverrideParams(doc, Tail(params), root, raw)
             ELSE OverrideParams(
                      SetJSON(doc, fullPath,
                              IF raw THEN RawValue(value).raw ELSE Marshal(value)),
                      Tail(params), root, raw)

\* The loop over rules.Override (raw FALSE) or rules.OverrideRaw (raw TRUE)
RECURSIVE OverrideRules(_, _, _, _, _, _)
OverrideRules(doc, rules, protocol, candidates, root, raw) ==
    IF rules = <<>> THEN doc
    ELSE OverrideRules(
             IF payloadModelRulesMatch(Head(rules).Models, protocol, candidates)
             THEN OverrideParams(doc, Head(rules).Params, root, raw)
             ELSE doc,
             Tail(rules), protocol, candidates, root, raw)

\* The body of the loop over rule.Params of the filter rules.
RECURSIVE FilterParams(_, _, _)
FilterParams(doc, paths, root) ==
    IF paths = <<>> THEN doc
    ELSE LET fullPath == buildPayloadPath(root, Head(paths))
         IN  IF fullPath = <<>> THEN FilterParams(doc, Tail(paths), root)
             ELSE FilterParams(DeleteJSON(doc, fullPath), Tail(paths), root)

\* The loop over rules.Filter
RECURSIVE FilterRules(_, _, _, _, _)
FilterRules(doc, rules, protocol, candidates, root) ==
    IF rules = <<>> THEN doc
    ELSE FilterRules(
             IF payloadModelRulesMatch(Head(rules).Models, protocol, candidates)
             THEN FilterParams(doc, Head(rules).Params, root)
             ELSE doc,
             Tail(rules), protocol, candidates, root)

\* applyPayloadConfigWithRoot(cfg, model, protocol, root, payload, original,
\* requestedModel); cfg is [nil, Payload], payload and original [empty, doc].
applyPayloadConfigWithRoot(cfg, modelArg, protocol, root, payload, original, requestedArg) ==
    LET rules      == cfg.Payload
        model      == TrimSpaceSeq(modelArg)
        requested  == TrimSpaceSeq(requestedArg)
        candidates == payloadModelCandidates(model, requested)
        source     == DefaultSource(payload, original).doc
        d1 == DefaultRules([out |-> payload.doc, applied |-> {}], rules.Default,
                           protocol, candidates, root, source, FALSE)
        d2 == DefaultRules(d1, rules.DefaultRaw, protocol, candidates, root,
                           source, TRUE)
        o1 == OverrideRules(d2.out, rules.Override, protocol, candidates, root, FALSE)
        o2 == OverrideRules(o1, rules.OverrideRaw, protocol, candidates, root, TRUE)
        f  == FilterRules(o2, rules.Filter, protocol, candidates, root)
    IN  IF cfg.nil \/ payload.empty THEN payload
        ELSE IF /\ rules.Default = <<>> /\ rules.DefaultRaw = <<>>
                /\ rules.Override = <<>> /\ rules.OverrideRaw = <<>>
                /\ rules.Filter = <<>>
        THEN payload
        ELSE IF model = <<>> /\ requested = <<>> THEN payload
        ELSE [empty |-> FALSE, doc |-> f]

(* ------------------- payload rules: calls under study ------------------- *)

BaseNames == StringsOver({"a", "A"}, MaxNameLen)

\* Client-requested names: a base name, alone or with the suffix "(8)".
RequestedNames == BaseNames \cup {b \o <<"(", "8", ")">> : b \in BaseNames}

\* Protocols: none, "o" in two spellings, "c".
CallProtocols == {<<>>, <<"o">>}

EntryProtocols == {<<>>, <<"O">>, <<"c">>}

ModelRuleEntries ==
    [Name : StringsOver({"a", "A", "*"}, MaxNameLen) \cup {<<"a", "(", "8", ")">>},
     Protocol : EntryProtocols]

RulesMatchCalls ==
    [fn : {"payloadModelRulesMatch"}, rules : {<<e>> : e \in ModelRuleEntries},
     protocol : CallProtocols, model : BaseNames, requestedModel : RequestedNames]

\* Rule lists of one kind have at most MaxRules rules.
MaxRules == 2

\* Model entries of a rule that matches, and of one that does not match,
\* the model "a".
Matching == <<[Name |-> <<"*">>, Protocol |-> <<>>]>>

NonMatching == <<[Name |-> <<"b">>, Protocol |-> <<>>]>>

SeqsUpTo(S, n) == UNION {[1..k -> S] : k \in 0..n}

\* A list of key/value rules on the path "a": rule i is the shape shapes[i]
\* ("hit" matches, "miss" does not, "nil" matches with a nil value) and
\* carries the value tag + i, an int or, when str, a string of digits.
ValueRules(shapes, tag, str) ==
    [i \in 1..Len(shapes) |->
        [Models |-> IF shapes[i] = "miss" THEN NonMatching ELSE Matching,
         Params |-> <<[key |-> <<"a">>,
                       value |-> IF shapes[i] = "nil" THEN GoNil
                                 ELSE IF str THEN GoStr(tag + i)
                                 ELSE GoInt(tag + i)]>>]]

\* A list of filter rules: "hit" matches and names "a", "miss" does not
\* match, "other" matches and names "b".
PathRules(shapes) ==
    [i \in 1..Len(shapes) |->
        [Models |-> IF shapes[i] = "miss" THEN NonMatching ELSE Matching,
         Params |-> IF shapes[i] = "other" THEN << <<"b">> >> ELSE << <<"a">> >>]]

NoBytes == [empty |-> TRUE, doc |-> {}]

Bytes(doc) == [empty |-> FALSE, doc |-> doc]

Leaf(path, n) == [path |-> path, val |-> JNum(n)]

\* A payload with the field x outside the root and, when hasA, the field a
\* at the place the rules address.
PayloadWith(root, hasA) ==
    Bytes({Leaf(<< <<"x">> >>, 9)}
          \cup (IF hasA THEN {Leaf(SplitDots(buildPayloadPath(root, <<"a">>)), 7)}
                ELSE {}))

PayloadRoots == {<<>>, <<"r">>}

Config(default, defaultRaw, override, overrideRaw, filter) ==
    [nil |-> FALSE,
     Payload |-> [Default |-> default, DefaultRaw |-> defaultRaw,
                  Override |-> override, OverrideRaw |-> overrideRaw,
                  Filter |-> filter]]

\* A call with several rules on the path "a": the lists of rules are
\* given by their shapes.
PrecedenceCall(d, dr, o, orw, f, root, hasA, original) ==
    [fn |-> "applyPayloadConfigWithRoot",
     cfg |-> Config(ValueRules(d, 10, FALSE), ValueRules(dr, 20, TRUE),
                    ValueRules(o, 30, FALSE), ValueRules(orw, 40, TRUE),
                    PathRules(f)),
     model |-> <<"a">>, protocol |-> <<>>, root |-> root,
     payload |-> PayloadWith(root, hasA), original |-> original,
     requestedModel |-> <<>>]

PrecedenceInit ==
    \E d \in SeqsUpTo({"hit", "miss"}, MaxRules),
       dr \in SeqsUpTo({"hit", "nil", "miss"}, 1),
       o \in SeqsUpTo({"hit", "miss"}, MaxRules),
       orw \in SeqsUpTo({"hit", "nil"}, 1),
       f \in SeqsUpTo({"hit", "miss", "other"}, 1),
       root \in PayloadRoots, hasA \in BOOLEAN :
        \E original \in {NoBytes, PayloadWith(root, FALSE), PayloadWith(root, TRUE)} :
            call = PrecedenceCall(d, dr, o, orw, f, root, hasA, original)

\* Parameter keys as they may be written in the configuration.
ParamKeys == {<<>>, <<"a">>, <<".", "a">>, <<" ", "a">>}

\* The entries of one rule in the order the map iteration visits them: the
\* keys are distinct, and a key with a leading dot comes with a root only.
ParamLists(root) ==
    {ks \in SeqsUpTo(ParamKeys, 2) :
        /\ ks # <<>>
        /\ \A i, j \in 1..Len(ks) : i # j => ks[i] # ks[j]
        /\ TrimSpaceSeq(root) = <<>> =>
               \A i \in 1..Len(ks) : ~HasPrefix(TrimSpaceSeq(ks[i]), <<".">>)}

KeyedParams(ks) == [j \in 1..Len(ks) |-> [key |-> ks[j], value |-> GoStr(50 + j)]]

\* A configuration with at most one rule, of any kind.
OneRuleConfigs(root) ==
    {Config(<<>>, <<>>, <<>>, <<>>, <<>>)}
    \cup {Config(IF kind = "default" THEN <<[Models |-> ms, Params |-> KeyedParams(ks)]>> ELSE <<>>,
                 IF kind = "default-raw" THEN <<[Models |-> ms, Params |-> KeyedParams(ks)]>> ELSE <<>>,
                 IF kind = "override" THEN <<[Models |-> ms, Params |-> KeyedParams(ks)]>> ELSE <<>>,
                 IF kind = "override-raw" THEN <<[Models |-> ms, Params |-> KeyedParams(ks)]>> ELSE <<>>,
                 IF kind = "filter" THEN <<[Models |-> ms, Params |-> ks]>> ELSE <<>>) :
            kind \in {"default", "default-raw", "override", "override-raw", "filter"},
            ms \in {Matching, NonMatching}, ks \in ParamLists(root)}

\* A payload with fields inside and outside the root "r".
FramePayload ==
    Bytes({Leaf(<< <<"x">> >>, 9), Leaf(<< <<"r">>, <<"c">> >>, 8)})

\* A call with one rule at most.
FrameCall(cfg, isNil, model, requested, root, payload) ==
    [fn |-> "applyPayloadConfigWithRoot",
     cfg |-> [cfg EXCEPT !.nil = isNil],
     model |-> model, protocol |-> <<>>, root |-> root,
     payload |-> payload, original |-> NoBytes,
     requestedModel |-> requested]

\* One rule at most, with every root, key and early-return condition.
FrameInit ==
    \E root \in PayloadRoots \cup {<<" ", "r">>} :
        \E cfg \in OneRuleConfigs(root), isNil \in BOOLEAN,
           model \in {<<>>, <<" ">>, <<"a">>}, requested \in {<<>>, <<"a">>},
           payload \in {NoBytes, FramePayload} :
            call = FrameCall(cfg, isNil, model, requested, root, payload)

PayloadInit ==
    /\ AllIdle
    /\ \/ call \in RulesMatchCalls
       \/ PrecedenceInit
       \/ FrameInit
    /\ ret = NoRet

\* applyPayloadConfigWithRoot up to the test of one rule:
\* candidates := payloadModelCandidates(model, requestedModel);
\* payloadModelRulesMatch(rule.Models, protocol, candidates)
ApplyRulesMatch ==
    /\ call.fn = "payloadModelRulesMatch"
    /\ ret = NoRet
    /\ ret' = <<payloadModelRulesMatch(
                    call.rules, call.protocol,
                    payloadModelCandidates(call.model, call.requestedModel))>>
    /\ UNCHANGED <<streamVars, call, onboardVars, authVars, tokenVars, cacheVars>>

\* applyPayloadConfigWithRoot(cfg, model, protocol, root, payload, original,
\* requestedModel)
ApplyPayloadConfig ==
    /\ call.fn = "applyPayloadConfigWithRoot"
    /\ ret = NoRet
    /\ ret' = <<applyPayloadConfigWithRoot(
                    call.cfg, call.model, call.protocol, call.root,
                    call.payload, call.original, call.requestedModel)>>
    /\ UNCHANGED <<streamVars, call, onboardVars, authVars, tokenVars, cacheVars>>

PayloadNext ==
    \/ ApplyRulesMatch
    \/ ApplyPayloadConfig

PayloadSpec == PayloadInit /\ [][PayloadNext]_vars

(* --------------- Antigravity: the payload sent upstream ----------------- *)

\* Largest thinking budget and largest value of a rule among the inputs.
MaxBudget == 7

\* Keys of the request payload, one letter each: "r" request,
\* "g" generationConfig, "m" maxOutputTokens, "t" thinkingConfig,
\* "b" thinkingBudget, "l" thinkingLevel, "c" contents.
RequestRoot == <<"r">>

MaxOutputTokensKey == <<"g", ".", "m">>

ThinkingConfigKey == <<"g", ".", "t">>

ThinkingBudgetKey == <<"g", ".", "t", ".", "b">>

ThinkingLevelKey == <<"g", ".", "t", ".", "l">>

\* "request." + key
InRequest(key) == RequestRoot \o <<".">> \o key

\* gjson.GetBytes(doc, path) for a number: <<n>>, Absent when the path
\* does not exist.
GetNumber(doc, path) ==
    LET hits == {l \in doc : l.path = SplitDots(path)}
    IN  IF hits = {} THEN Absent ELSE <<(CHOOSE l \in hits : TRUE).val.v>>

\* util.StripThinkingConfigIfUnsupported(model, payload)
StripThinkingConfigIfUnsupported(info, doc) ==
    IF ModelSupportsThinking(info) THEN doc
    ELSE DeleteJSON(doc, InRequest(ThinkingConfigKey))

\* antigravityEffectiveMaxTokens(model, payload)
antigravityEffectiveMaxTokens(info, doc) ==
    LET maxTok == GetNumber(doc, InRequest(MaxOutputTokensKey))
    IN  IF maxTok # Absent /\ maxTok[1] > 0
        THEN [max |-> maxTok[1], fromModel |-> FALSE]
        ELSE IF info # Absent /\ info[1].MaxCompletionTokens > 0
        THEN [max |-> info[1].MaxCompletionTokens, fromModel |-> TRUE]
        ELSE [max |-> 0, fromModel |-> FALSE]

\* antigravityMinThinkingBudget(model)
antigravityMinThinkingBudget(info) ==
    IF info # Absent /\ info[1].Thinking # Absent THEN info[1].Thinking[1].Min ELSE -1

\* normalizeAntigravityThinking(model, payload, isClaude)
normalizeAntigravityThinking(info, payload, isClaude) ==
    LET p1     == StripThinkingConfigIfUnsupported(info, payload)
        budget == GetNumber(p1, InRequest(ThinkingBudgetKey))
    IN  IF ~ModelSupportsThinking(info) THEN p1
        ELSE IF budget = Absent THEN p1
        ELSE
        LET n0 == NormalizeThinkingBudget(info, budget[1])
            em == antigravityEffectiveMaxTokens(info, p1)
            normalized == IF isClaude /\ em.max > 0 THEN ClampBelowMax(n0, em.max)
                          ELSE n0
            minBudget  == antigravityMinThinkingBudget(info)
            p2 == IF isClaude /\ em.fromModel
                  THEN SetJSON(p1, InRequest(MaxOutputTokensKey), JNum(em.max))
                  ELSE p1
        IN  IF isClaude /\ minBudget > 0 /\ normalized >= 0 /\ normalized < minBudget
            THEN DeleteJSON(p1, InRequest(ThinkingConfigKey))
            ELSE SetJSON(p2, InRequest(ThinkingBudgetKey), JNum(normalized))

\* geminiToAntigravity(modelName, payload, projectID), as far as it touches
\* generationConfig; gemini3 is strings.HasPrefix(modelName, "gemini-3-") ||
\* strings.HasPrefix(modelName, "gemini-3.1-"), containsClaude is
\* strings.Contains(modelName, "claude").
geminiToAntigravity(gemini3, containsClaude, doc) ==
    LET d1 == IF ~gemini3 /\ Exists(doc, InRequest(ThinkingLevelKey))
              THEN SetJSON(DeleteJSON(doc, InRequest(ThinkingLevelKey)),
                           InRequest(ThinkingBudgetKey), JNum(-1))
              ELSE doc
    IN  IF containsClaude THEN d1
        ELSE DeleteJSON(d1, InRequest(MaxOutputTokensKey))

\* The protocol name ExecuteStream passes to applyPayloadConfigWithRoot.
AntigravityProtocol == <<"a", "n", "t", "i", "g", "r", "a", "v", "i", "t", "y">>

\* The body of the upstream request of Execute / ExecuteStream, from the
\* translated payload on: normalizeAntigravityThinking,
\* applyPayloadConfigWithRoot with the root "request", and buildRequest.
UpstreamPayload(c) ==
    LET normalized == normalizeAntigravityThinking(c.info, c.translated, c.isClaude)
        ruled == applyPayloadConfigWithRoot(c.cfg, c.model, AntigravityProtocol,
                                            RequestRoot, Bytes(normalized),
                                            Bytes(c.originalTranslated), c.model)
    IN  geminiToAntigravity(FALSE, c.containsClaude, ruled.doc)

\* A translated request: contents, and the optional fields of
\* generationConfig.
TranslatedRequest(maxTokens, budget, level) ==
    {Leaf(<< <<"r">>, <<"c">> >>, 0)}
    \cup (IF maxTokens = Absent THEN {}
          ELSE {Leaf(SplitDots(InRequest(MaxOutputTokensKey)), maxTokens[1])})
    \cup (IF budget = Absent THEN {}
          ELSE {Leaf(SplitDots(InRequest(ThinkingBudgetKey)), budget[1])})
    \cup (IF level THEN {[path |-> SplitDots(InRequest(ThinkingLevelKey)), val |-> JStr(0)]}
          ELSE {})

\* One rule of the given kind on a key of generationConfig, that matches
\* every model or none, or no rule at all.
GenerationRule(kind, ms, key, n) ==
    LET rule == <<[Models |-> ms, Params |-> <<[key |-> key, value |-> GoInt(n)]>>]>>
    IN  Config(IF kind = "default" THEN rule ELSE <<>>, <<>>,
               IF kind = "override" THEN rule ELSE <<>>, <<>>,
               IF kind = "filter" THEN <<[Models |-> ms, Params |-> <<key>>]>> ELSE <<>>)

\* Requests of Claude models (the name stands for any name that contains
\* "claude" in some spelling).
UpstreamInit ==
    /\ AllIdle
    /\ \E info \in ModelInfos,
          maxTokens \in {Absent, <<0>>, <<3>>, <<6>>},
          budget \in {Absent} \cup {<<n>> : n \in (-1)..MaxBudget},
          level \in BOOLEAN, containsClaude \in BOOLEAN,
          kind \in {"none", "default", "override", "filter"},
          ms \in {Matching, NonMatching},
          key \in {MaxOutputTokensKey, ThinkingBudgetKey},
          n \in {2, MaxBudget} :
        /\ kind = "none" => (ms = Matching /\ key = MaxOutputTokensKey /\ n = 2)
        /\ kind = "filter" => n = 2
        /\ ms = NonMatching => (n = 2 /\ ~level /\ containsClaude)
        /\ call = [fn |-> "antigravityUpstreamPayload",
                   info |-> info, isClaude |-> TRUE, containsClaude |-> containsClaude,
                   model |-> <<"a">>,
                   cfg |-> GenerationRule(kind, ms, key, n),
                   translated |-> TranslatedRequest(maxTokens, budget, level),
                   originalTranslated |-> TranslatedRequest(maxTokens, budget, level)]
    /\ ret = NoRet

\* ExecuteStream from the translated payload to httpClient.Do
SendUpstreamPayload ==
    /\ call.fn = "antigravityUpstreamPayload"
    /\ ret = NoRet
    /\ ret' = <<UpstreamPayload(call)>>
    /\ UNCHANGED <<streamVars, call, onboardVars, authVars, tokenVars, cacheVars>>

UpstreamNext == SendUpstreamPayload

UpstreamSpec == UpstreamInit /\ [][UpstreamNext]_vars

(* ------------------------- config synthesizer --------------------------- *)

\* A configuration lists at most MaxKeys keys per provider, and Synthesize is
\* invoked at most MaxInvocations times on one configuration.
MaxKeys == 2

MaxInvocations == 2

\* map[string]string as a function; m[k] = v
EmptyMap == [k \in {} |-> <<>>]

Put(m, k, val) == [x \in DOMAIN m \cup {k} |-> IF x = k THEN val ELSE m[x]]

\* NewStableIDGenerator(): no seed has been seen.
NewStableIDGenerator == <<>>

\* The short digest of the seed (kind, parts...).
ShortHash(kind, parts) == <<"sha256", kind>> \o parts

\* StableIDGenerator.Next(kind, parts...): the identifier is the kind and
\* the digest of the seed, with a counter when the seed was seen before.
StableNext(gen, kind, parts) ==
    LET token == ShortHash(kind, parts)
        seen  == Cardinality({i \in 1..Len(gen) : gen[i] = token})
    IN  [id |-> IF seen = 0 THEN <<kind, token>> ELSE <<kind, token, seen>>,
         token |-> token,
         gen |-> Append(gen, token)]

\* diff.ComputeGeminiModelsHash / diff.ComputeCodexModelsHash: a canonical
\* digest of the models of the entry, "" when there are none.
ComputeModelsHash(models) == IF models = {} THEN <<>> ELSE <<"sha256", models>>

\* A plausible slip: only the header visited first is recorded.
addConfigHeadersToAttrs_FirstOnly(headers, attrs) ==
    IF headers = <<>> THEN attrs
    ELSE Put(attrs, <<"header", Head(headers).name>>, Head(headers).value)

\* addConfigHeadersToAttrs(headers, attrs): attrs["header:<Name>"] = value
\* for the headers in the order the map iteration visits them.
RECURSIVE addConfigHeadersToAttrs(_, _)
addConfigHeadersToAttrs(headers, attrs) ==
    IF headers = <<>> THEN attrs
    ELSE addConfigHeadersToAttrs(
             Tail(headers),
             Put(attrs, <<"header", Head(headers).name>>, Head(headers).value))

\* ApplyAuthExcludedModelsMeta(a, cfg, perKey, authKind): records the kind
\* of the credential and a digest of its excluded models.
ApplyAuthExcludedModelsMeta(a, perKey, authKind) ==
    LET withHash == IF perKey = {} THEN a.Attributes
                    ELSE Put(a.Attributes, <<"excluded_models_hash">>,
                             <<"sha256", perKey>>)
    IN  [a EXCEPT !.Attributes = Put(withHash, <<"auth_kind">>, <<authKind>>)]

\* The headers of an entry as the map iteration visits them: in one order,
\* or in the other when flip.
RECURSIVE SeqOfSet(_)
SeqOfSet(S) ==
    IF S = {} THEN <<>>
    ELSE LET x == CHOOSE y \in S : TRUE IN <<x>> \o SeqOfSet(S \ {x})

Reverse(s) == [i \in 1..Len(s) |-> s[Len(s) + 1 - i]]

MapOrder(headers, flip) ==
    IF flip THEN Reverse(SeqOfSet(headers)) ELSE SeqOfSet(headers)

\* A plausible slip: the key is used as written.
EntryKey_Raw(entry) == entry.APIKey

\* key := strings.TrimSpace(entry.APIKey)
EntryKey(entry) == TrimSpaceSeq(entry.APIKey)

\* The attributes both providers set before the headers are added.
BaseAttrs(source, key, priority, base, hash) ==
    LET a1 == Put(Put(EmptyMap, <<"source">>, source), <<"api_key">>, key)
        a2 == IF priority # 0 THEN Put(a1, <<"priority">>, <<"itoa", priority>>) ELSE a1
        a3 == IF base # <<>> THEN Put(a2, <<"base_url">>, base) ELSE a2
    IN  IF hash # <<>> THEN Put(a3, <<"models_hash">>, hash) ELSE a3

\* The body of the loop of synthesizeGeminiKeys for one entry with a
\* non-blank key; n is the answer of idGen.Next.
GeminiAuth(entry, n, now, flip) ==
    LET key   == EntryKey(entry)
        base  == TrimSpaceSeq(entry.BaseURL)
        attrs == addConfigHeadersToAttrs(
                     MapOrder(entry.Headers, flip),
                     BaseAttrs(<<"config:gemini", n.token>>, key, entry.Priority,
                               base, ComputeModelsHash(entry.Models)))
    IN  ApplyAuthExcludedModelsMeta(
            [ID |-> n.id, Provider |-> "gemini", Label |-> "gemini-apikey",
             Prefix |-> TrimSpaceSeq(entry.Prefix), Status |-> "active",
             ProxyURL |-> TrimSpaceSeq(entry.ProxyURL), Attributes |-> attrs,
             CreatedAt |-> now, UpdatedAt |-> now],
            entry.ExcludedModels, "apikey")

\* The body of the loop of synthesizeCodexKeys for one entry with a
\* non-blank key: the base URL is used as written.
CodexAuth(ck, n, now, flip) ==
    LET key   == EntryKey(ck)
        attrs == addConfigHeadersToAttrs(
                     MapOrder(ck.Headers, flip),
                     BaseAttrs(<<"config:codex", n.token>>, key, ck.Priority,
                               ck.BaseURL, ComputeModelsHash(ck.Models)))
    IN  ApplyAuthExcludedModelsMeta(
            [ID |-> n.id, Provider |-> "codex", Label |-> "codex-apikey",
             Prefix |-> TrimSpaceSeq(ck.Prefix), Status |-> "active",
             ProxyURL |-> TrimSpaceSeq(ck.ProxyURL), Attributes |-> attrs,
             CreatedAt |-> now, UpdatedAt |-> now],
            ck.ExcludedModels, "apikey")

\* synthesizeGeminiKeys(ctx) from entry i on; st is [out, gen], flips[i]
\* the iteration order of the headers of entry i.
RECURSIVE synthesizeGeminiKeys(_, _, _, _, _)
synthesizeGeminiKeys(st, entries, i, now, flips) ==
    IF i > Len(entries) THEN st
    ELSE IF EntryKey(entries[i]) = <<>>
    THEN synthesizeGeminiKeys(st, entries, i + 1, now, flips)
    ELSE LET n == StableNext(st.gen, "gemini:apikey",
                             <<EntryKey(entries[i]), TrimSpaceSeq(entries[i].BaseURL)>>)
         IN  synthesizeGeminiKeys(
                 [out |-> Append(st.out, GeminiAuth(entries[i], n, now, flips[i])),
                  gen |-> n.gen],
                 entries, i + 1, now, flips)

\* synthesizeCodexKeys(ctx) from entry i on
RECURSIVE synthesizeCodexKeys(_, _, _, _, _)
synthesizeCodexKeys(st, entries, i, now, flips) ==
    IF i > Len(entries) THEN st
    ELSE IF EntryKey(entries[i]) = <<>>
    THEN synthesizeCodexKeys(st, entries, i + 1, now, flips)
    ELSE LET n == StableNext(st.gen, "codex:apikey",
                             <<EntryKey(entries[i]), entries[i].BaseURL>>)
         IN  synthesizeCodexKeys(
                 [out |-> Append(st.out, CodexAuth(entries[i], n, now, flips[i])),
                  gen |-> n.gen],
                 entries, i + 1, now, flips)

\* ConfigSynthesizer.Synthesize(ctx) with the generator of ctx; ctx is
\* [nil, cfgNil, GeminiKey, CodexKey, Now].
Synthesize(ctx, gen, geminiFlips, codexFlips) ==
    IF ctx.nil \/ ctx.cfgNil THEN [auths |-> <<>>, err |-> "nil"]
    ELSE LET g == synthesizeGeminiKeys([out |-> <<>>, gen |-> gen],
                                       ctx.GeminiKey, 1, ctx.Now, geminiFlips)
             c == synthesizeCodexKeys([out |-> <<>>, gen |-> g.gen],
                                      ctx.CodexKey, 1, ctx.Now, codexFlips)
         IN  [auths |-> g.out \o c.out, err |-> "nil"]

(* ------------------- config synthesizer: calls under study -------------- *)

\* Keys as written: empty, blank, and two spellings of the key "k".
APIKeys == {<<>>, <<" ">>, <<"k">>, <<" ", "k">>}

Header(name, value) == [name |-> name, value |-> value]

\* An entry with nothing but a key, and one with every optional field.
PlainEntry(key) ==
    [APIKey |-> key, Prefix |-> <<>>, BaseURL |-> <<>>, ProxyURL |-> <<>>,
     Priority |-> 0, Models |-> {}, Headers |-> {}, ExcludedModels |-> {}]

RichEntry(key) ==
    [APIKey |-> key, Prefix |-> <<"p", " ">>, BaseURL |-> <<"u", " ">>,
     ProxyURL |-> <<" ", "x">>, Priority |-> 1, Models |-> {"m"},
     Headers |-> {Header("X", <<"v">>), Header("Y", <<"w">>)},
     ExcludedModels |-> {"e"}]

KeyEntries ==
    {PlainEntry(k) : k \in APIKeys} \cup {RichEntry(<<"j", " ">>)}

\* The orders in which the header maps of the entries may be iterated:
\* flips[i] tells the order for entry i, and matters for an entry with
\* more than one header only.
MapOrders(entries) ==
    {[i \in 1..Len(entries) |-> i \in flipped] :
        flipped \in SUBSET {i \in 1..Len(entries) : Cardinality(entries[i].Headers) > 1}}

SynthesisContexts ==
    [nil : BOOLEAN, cfgNil : BOOLEAN, GeminiKey : SeqsUpTo(KeyEntries, MaxKeys),
     CodexKey : SeqsUpTo(KeyEntries, MaxKeys), Now : {Now0}]

\* The context is nil, or its configuration is nil, or it has a
\* configuration; a nil context or configuration has no key lists.
SynthInit ==
    /\ AllIdle
    /\ \E ctx \in SynthesisContexts :
          /\ ctx.nil => ctx.cfgNil
          /\ ctx.cfgNil => ctx.GeminiKey = <<>> /\ ctx.CodexKey = <<>>
          /\ call = [fn |-> "Synthesize", ctx |-> ctx]
    /\ ret = NoRet

\* One invocation of Synthesize on the configuration with a fresh
\* generator; the maps of headers are iterated in any order.
SynthesizeCall ==
    /\ call.fn = "Synthesize"
    /\ Len(ret) < MaxInvocations
    /\ \E geminiFlips \in MapOrders(call.ctx.GeminiKey),
          codexFlips \in MapOrders(call.ctx.CodexKey) :
          ret' = Append(ret, Synthesize(call.ctx, NewStableIDGenerator,
                                        geminiFlips, codexFlips))
    /\ UNCHANGED <<streamVars, call, onboardVars, authVars, tokenVars, cacheVars>>

SynthNext == SynthesizeCall

SynthSpec == SynthInit /\ [][SynthNext]_vars

(* ------------------ Antigravity: convertStreamToNonStream ---------------- *)

\* A stream has at most MaxLines lines.
MaxLines == 3

\* A part of candidates.0.content.parts: functionCall is 0 when the part has
\* none and else tells the call; inline is "" or the spelling of the
\* inline-data key; sigKey is the spelling of the signature key.
Part(functionCall, inline, hasText, text, thought, sig, sigKey) ==
    [functionCall |-> functionCall, inline |-> inline, hasText |-> hasText,
     text |-> text, thought |-> thought, sig |-> sig, sigKey |-> sigKey]

TextPart(text) == Part(0, "", TRUE, text, FALSE, <<>>, "thoughtSignature")

ThoughtPart(text, sig) == Part(0, "", TRUE, text, TRUE, sig, "thoughtSignature")

\* The state of the loop: the parts appended, and the pending run.
NoPending(parts) ==
    [parts |-> parts, pendingKind |-> "", pendingText |-> <<>>,
     pendingThoughtSig |-> <<>>]

\* flushPending()
flushPending(st) ==
    IF st.pendingKind = "" THEN st
    ELSE IF st.pendingKind = "text"
    THEN IF TrimSpaceSeq(st.pendingText) = <<>>
         THEN NoPending(st.parts)
         ELSE NoPending(Append(st.parts, TextPart(st.pendingText)))
    ELSE IF TrimSpaceSeq(st.pendingText) = <<>> /\ st.pendingThoughtSig = <<>>
         THEN NoPending(st.parts)
         ELSE NoPending(Append(st.parts,
                               ThoughtPart(st.pendingText, st.pendingThoughtSig)))

\* normalizePart(part): the signature and the inline data under their
\* camel-case keys.
normalizePart(part) ==
    [part EXCEPT !.sigKey = IF part.sig # <<>> THEN "thoughtSignature" ELSE @,
                 !.inline = IF @ = "inline_data" THEN "inlineData" ELSE @]

\* The body of the loop over the parts of one line.
MergePart(st, part) ==
    IF part.functionCall # 0 \/ part.inline # ""
    THEN LET f == flushPending(st) IN [f EXCEPT !.parts = Append(@, normalizePart(part))]
    ELSE IF part.thought \/ part.hasText
    THEN LET kind == IF part.thought THEN "thought" ELSE "text"
             f == IF st.pendingKind # "" /\ st.pendingKind # kind
                  THEN flushPending(st) ELSE st
         IN  [f EXCEPT !.pendingKind = kind,
                       !.pendingText = @ \o part.text,
                       !.pendingThoughtSig =
                           IF kind = "thought" /\ part.sig # <<>> THEN part.sig ELSE @]
    ELSE LET f == flushPending(st) IN [f EXCEPT !.parts = Append(@, normalizePart(part))]

RECURSIVE MergeParts(_, _)
MergeParts(st, parts) ==
    IF parts = <<>> THEN st
    ELSE MergeParts(MergePart(st, Head(parts)), Tail(parts))

\* The loop over the lines of the stream: a line that is blank or not valid
\* JSON, or has neither response nor candidates, is skipped.
RECURSIVE MergeLines(_, _)
MergeLines(acc, lines) ==
    IF lines = <<>> THEN acc
    ELSE LET line == Head(lines)
         IN  IF ~line.valid THEN MergeLines(acc, Tail(lines))
             ELSE MergeLines(
                      [st |-> MergeParts(acc.st, line.parts),
                       role |-> line.role,
                       finishReason |-> IF line.finishReason # "" THEN line.finishReason
                                        ELSE acc.finishReason,
                       seen |-> TRUE],
                      Tail(lines))

\* convertStreamToNonStream(stream): the parts, the role and the finish
\* reason of the aggregate response.
convertStreamToNonStream(stream) ==
    LET acc == MergeLines([st |-> NoPending(<<>>), role |-> "", finishReason |-> "",
                           seen |-> FALSE], stream)
    IN  [parts |-> flushPending(acc.st).parts,
         role |-> IF acc.role # "" THEN acc.role
                  ELSE IF acc.seen THEN "" ELSE "model",
         finishReason |-> acc.finishReason]

(* --------------- convertStreamToNonStream: calls under study ------------ *)

StreamParts ==
    {TextPart(<<"a">>), TextPart(<<"b">>), TextPart(<<" ">>),
     ThoughtPart(<<"c">>, <<>>), ThoughtPart(<<"d">>, <<"s">>),
     ThoughtPart(<<>>, <<>>), ThoughtPart(<<>>, <<"s">>),
     Part(1, "", FALSE, <<>>, FALSE, <<>>, "thoughtSignature"),
     Part(2, "", TRUE, <<"a">>, TRUE, <<"s">>, "thought_signature"),
     Part(0, "inlineData", FALSE, <<>>, FALSE, <<>>, "thoughtSignature"),
     Part(0, "inline_data", FALSE, <<>>, FALSE, <<>>, "thoughtSignature"),
     Part(0, "", FALSE, <<>>, FALSE, <<>>, "thoughtSignature")}

Line(parts, finishReason) ==
    [valid |-> TRUE, parts |-> parts, role |-> "model", finishReason |-> finishReason]

\* A line that is not valid JSON.
InvalidLine == [valid |-> FALSE, parts |-> <<>>, role |-> "", finishReason |-> ""]

\* A line with one part, a line with two parts of one kind that ends the
\* response, and a line that is skipped.
StreamLines ==
    {Line(<<p>>, "") : p \in StreamParts}
    \cup {Line(<<TextPart(<<"a">>), TextPart(<<"b">>)>>, "STOP"), InvalidLine}

MergeInit ==
    /\ AllIdle
    /\ \E stream \in SeqsUpTo(StreamLines, MaxLines) :
          call = [fn |-> "convertStreamToNonStream", stream |-> stream]
    /\ ret = NoRet

\* convertStreamToNonStream(stream)
ApplyConvertStream ==
    /\ call.fn = "convertStreamToNonStream"
    /\ ret = NoRet
    /\ ret' = <<convertStreamToNonStream(call.stream)>>
    /\ UNCHANGED <<streamVars, call, onboardVars, authVars, tokenVars, cacheVars>>

MergeNext == ApplyConvertStream

MergeSpec == MergeInit /\ [][MergeNext]_vars

(* ---------------------- Antigravity: onboardUser ------------------------ *)

maxAttempts == 150

pollInterval == 2 * Second

\* What one onboardUser request may come back with: a transport failure, a
\* body that cannot be read, or a response with a status and a body; the
\* body is valid JSON or not, its "done" is true, false or not a boolean,
\* and response.cloudaicompanionProject is an object with a string id, a
\* string, an object without a string id, or absent.
OnboardResponses ==
    [kind : {"transport", "read"}, status : {0}, valid : {FALSE},
     done : {"absent"}, form : {"absent"}, id : {<<>>}]
        \cup [kind : {"http"}, status : {StatusTooManyRequests, StatusServiceUnavailable},
              valid : {TRUE}, done : {"true", "false"}, form : {"string"},
              id : {<<"p">>}]
        \cup [kind : {"http"}, status : {StatusOK}, valid : {FALSE},
              done : {"absent"}, form : {"absent"}, id : {<<>>}]
        \cup [kind : {"http"}, status : {StatusOK}, valid : {TRUE},
              done : {"false", "other"}, form : {"absent", "string"},
              id : {<<"p">>}]
        \cup [kind : {"http"}, status : {StatusOK}, valid : {TRUE},
              done : {"true"}, form : {"object", "string"},
              id : {<<"p">>, <<" ", "p">>, <<" ">>, <<>>}]
        \cup [kind : {"http"}, status : {StatusOK}, valid : {TRUE},
              done : {"true"}, form : {"absent", "object-no-id"}, id : {<<>>}]

\* The project ID read from a done response: the trimmed id of the object
\* or the trimmed string, else "".
OnboardProjectID(resp) ==
    IF resp.form \in {"object", "string"} THEN TrimSpaceSeq(resp.id) ELSE <<>>

\* A plausible slip: a response with an error status is polled again.
OnboardOutcome_RetryOnStatus(resp) ==
    IF resp.kind = "transport" THEN "execute request"
    ELSE IF resp.kind = "read" THEN "read response"
    ELSE IF resp.status = StatusOK /\ ~resp.valid THEN "decode response"
    ELSE IF resp.status = StatusOK /\ resp.done = "true"
    THEN IF OnboardProjectID(resp) # <<>> THEN "project" ELSE "no project_id"
    ELSE "poll"

\* What the loop body does with the answer of httpClient.Do: return with
\* the error named, return the project ID ("project"), or sleep and poll
\* again ("poll").
OnboardOutcome(resp) ==
    IF resp.kind = "transport" THEN "execute request"
    ELSE IF resp.kind = "read" THEN "read response"
    ELSE IF resp.status = StatusOK
    THEN IF ~resp.valid THEN "decode response"
         ELSE IF resp.done = "true"
         THEN IF OnboardProjectID(resp) # <<>> THEN "project" ELSE "no project_id"
         ELSE "poll"
    ELSE "http"

OnboardInit ==
    /\ Quiescent /\ TokenIdle /\ CacheIdle /\ AuthIdle
    /\ call = NoCall
    /\ ret = NoRet
    /\ onboard = [pc |-> "request", attempt |-> 1, requests |-> 0, slept |-> 0,
                  last |-> NoResponse, result |-> NoOnboardResult]

\* The loop head and the request: for attempt := 1; attempt <= maxAttempts,
\* up to httpClient.Do(req).
OnboardRequest ==
    /\ onboard.pc = "request"
    /\ onboard.attempt <= maxAttempts
    /\ onboard' = [onboard EXCEPT !.pc = "awaiting", !.requests = @ + 1]
    /\ UNCHANGED <<streamVars, pureVars, tokenVars, cacheVars, authVars>>

\* From the return of httpClient.Do to the return of the function or to
\* time.Sleep(pollInterval).
OnboardRespond ==
    /\ onboard.pc = "awaiting"
    /\ \E resp \in OnboardResponses :
          onboard' =
              IF OnboardOutcome(resp) = "poll"
              THEN [onboard EXCEPT !.pc = "sleeping", !.last = resp]
              ELSE IF OnboardOutcome(resp) = "project"
              THEN [onboard EXCEPT !.pc = "returned", !.last = resp,
                                   !.result = [projectID |-> OnboardProjectID(resp),
                                               err |-> "nil"]]
              ELSE [onboard EXCEPT !.pc = "returned", !.last = resp,
                                   !.result = [projectID |-> <<>>,
                                               err |-> OnboardOutcome(resp)]]
    /\ UNCHANGED <<streamVars, pureVars, tokenVars, cacheVars, authVars>>

\* time.Sleep(pollInterval) returns; continue with attempt++.
OnboardWake ==
    /\ onboard.pc = "sleeping"
    /\ onboard' = [onboard EXCEPT !.pc = "request", !.attempt = @ + 1,
                                  !.slept = @ + pollInterval]
    /\ UNCHANGED <<streamVars, pureVars, tokenVars, cacheVars, authVars>>

\* The loop ends: onboarding timed out after maxAttempts attempts.
OnboardTimeout ==
    /\ onboard.pc = "request"
    /\ onboard.attempt > maxAttempts
    /\ onboard' = [onboard EXCEPT !.pc = "returned",
                                  !.result = [projectID |-> <<>>, err |-> "timed out"]]
    /\ UNCHANGED <<streamVars, pureVars, tokenVars, cacheVars, authVars>>

OnboardNext ==
    \/ OnboardRequest
    \/ OnboardRespond
    \/ OnboardWake
    \/ OnboardTimeout

OnboardSpec == OnboardInit /\ [][OnboardNext]_vars

\* Every request comes back, with an answer or a failure, within
\* requestTimeout, and time.Sleep returns: the function keeps running.
OnboardLiveSpec == OnboardSpec /\ WF_vars(OnboardNext)

(* -------------- Antigravity ExecuteStream: the call alone --------------- *)

\* ExecuteStream up to its return, without the reader goroutine and the
\* consumer of the stream it returns.
LoopInit == Init /\ op = "agStream"

LoopNext ==
    \/ StreamRequest
    \/ TimerFire
    \/ StreamWait
    \/ ValidateLine
    \/ ValidateEnd
    \/ CtxCancel

LoopSpec == LoopInit /\ [][LoopNext]_vars

\* Every httpClient.Do comes back with an answer or an error, every Scan of
\* the response body returns, and the timer of antigravityWait fires.
LoopLiveSpec ==
    /\ LoopSpec
    /\ WF_vars(StreamRequest)
    /\ WF_vars(TimerFire)
    /\ WF_vars(StreamWait)
    /\ WF_vars(ValidateLine \/ ValidateEnd)

(* ------------------ package auth: the global token store ---------------- *)

\* RegisterTokenStore is called at most MaxRegisters times.
MaxRegisters == 2

\* The stores handed to RegisterTokenStore: nil or one of two stores.
RegisteredStores == {NilStore, CustomStore(1), CustomStore(2)}

StoreInit ==
    /\ Quiescent /\ TokenIdle /\ CacheIdle /\ OnboardIdle /\ LoginIdle
    /\ call = NoCall
    /\ ret = NoRet
    /\ StoreIdle

\* Goroutine c calls GetTokenStore and asks for the read lock.  clean
\* (history): no RegisterTokenStore is in progress.
GetTokenStoreCall(c) ==
    /\ tokenStore.g[c].pc = "idle"
    /\ tokenStore' = [tokenStore EXCEPT
           !.g[c] = [pc |-> "rlock", s |-> NilStore,
                     clean |-> (tokenStore.reg.pc = "idle"), ret |-> NoStore]]
    /\ UNCHANGED <<streamVars, pureVars, tokenVars, cacheVars, onboardVars, login>>

\* storeMu.RLock()
GetTokenStoreRLock(c) ==
    /\ tokenStore.g[c].pc = "rlock"
    /\ tokenStore.writer = 0
    /\ tokenStore' = [tokenStore EXCEPT !.readers = @ \cup {c}, !.g[c].pc = "rlocked"]
    /\ UNCHANGED <<streamVars, pureVars, tokenVars, cacheVars, onboardVars, login>>

\* s := registeredStore; storeMu.RUnlock(); and the return of s when it is
\* not nil.
GetTokenStoreFast(c) ==
    /\ tokenStore.g[c].pc = "rlocked"
    /\ LET s == tokenStore.registeredStore
       IN  tokenStore' = [tokenStore EXCEPT
               !.readers = @ \ {c},
               !.g[c] = IF s # NilStore
                        THEN [@ EXCEPT !.pc = "idle", !.s = s, !.ret = s]
                        ELSE [@ EXCEPT !.pc = "lock", !.s = s]]
    /\ UNCHANGED <<streamVars, pureVars, tokenVars, cacheVars, onboardVars, login>>

\* storeMu.Lock() of the slow path
GetTokenStoreLock(c) ==
    /\ tokenStore.g[c].pc = "lock"
    /\ tokenStore.writer = 0 /\ tokenStore.readers = {}
    /\ tokenStore' = [tokenStore EXCEPT !.writer = c, !.g[c].pc = "locked"]
    /\ UNCHANGED <<streamVars, pureVars, tokenVars, cacheVars, onboardVars, login>>

\* A plausible slip: the slow path does not test registeredStore again.
GetTokenStoreSlow_NoRecheck(c) ==
    /\ tokenStore.g[c].pc = "locked"
    /\ tokenStore' = [tokenStore EXCEPT
           !.registeredStore = FileStore(tokenStore.created + 1),
           !.created = @ + 1,
           !.writer = 0,
           !.g[c] = [@ EXCEPT !.pc = "idle", !.ret = FileStore(tokenStore.created + 1)]]
    /\ UNCHANGED <<streamVars, pureVars, tokenVars, cacheVars, onboardVars, login>>

\* if registeredStore == nil { registeredStore = NewFileTokenStore() };
\* return registeredStore; and the deferred storeMu.Unlock()
GetTokenStoreSlow(c) ==
    /\ tokenStore.g[c].pc = "locked"
    /\ LET make     == tokenStore.registeredStore = NilStore
           newStore == IF make THEN FileStore(tokenStore.created + 1)
                       ELSE tokenStore.registeredStore
       IN  tokenStore' = [tokenStore EXCEPT
               !.registeredStore = newStore,
               !.created = IF make THEN @ + 1 ELSE @,
               !.writer = 0,
               !.g[c] = [@ EXCEPT !.pc = "idle", !.ret = newStore]]
    /\ UNCHANGED <<streamVars, pureVars, tokenVars, cacheVars, onboardVars, login>>

\* RegisterTokenStore(store) is called.  A GetTokenStore in progress is no
\* longer clean.
RegisterTokenStoreCall ==
    /\ tokenStore.reg.pc = "idle"
    /\ tokenStore.registers < MaxRegisters
    /\ \E store \in RegisteredStores :
          tokenStore' = [tokenStore EXCEPT
              !.reg = [pc |-> "lock", store |-> store],
              !.registers = @ + 1,
              !.g = [c \in Callers |-> [tokenStore.g[c] EXCEPT !.clean = FALSE]]]
    /\ UNCHANGED <<streamVars, pureVars, tokenVars, cacheVars, onboardVars, login>>

\* storeMu.Lock(); registeredStore = store; storeMu.Unlock()
RegisterTokenStoreSet ==
    /\ tokenStore.reg.pc = "lock"
    /\ tokenStore.writer = 0 /\ tokenStore.readers = {}
    /\ tokenStore' = [tokenStore EXCEPT
           !.registeredStore = tokenStore.reg.store,
           !.lastRegistered = tokenStore.reg.store,
           !.reg = [pc |-> "idle", store |-> NilStore]]
    /\ UNCHANGED <<streamVars, pureVars, tokenVars, cacheVars, onboardVars, login>>

StoreNext ==
    \/ \E c \in Callers : GetTokenStoreCall(c)
    \/ \E c \in Callers : GetTokenStoreRLock(c)
    \/ \E c \in Callers : GetTokenStoreFast(c)
    \/ \E c \in Callers : GetTokenStoreLock(c)
    \/ \E c \in Callers : GetTokenStoreSlow(c)
    \/ RegisterTokenStoreCall
    \/ RegisterTokenStoreSet

StoreSpec == StoreInit /\ [][StoreNext]_vars

(* ------------------ AntigravityAuthenticator.Login ---------------------- *)

\* state of this login (misc.GenerateRandomState), and what a callback may
\* carry.
LoginState == "s"

Callbacks ==
    {callbackResult(code, st, error) :
        code \in {"", "c"}, st \in {"", "s", "x"}, error \in {"", "e"}}

\* Login from the select of waitForCallback on: the callback server runs,
\* timeoutTimer (5 minutes) is set and, with opts.Prompt, manualPromptTimer
\* (15 seconds).  pc = "wait": blocked in the select, no case being ready.
LoginInit ==
    /\ Quiescent /\ TokenIdle /\ CacheIdle /\ OnboardIdle /\ StoreIdle
    /\ call = NoCall
    /\ ret = NoRet
    /\ \E hasPrompt \in BOOLEAN :
          login = [pc |-> "wait", hasPrompt |-> hasPrompt,
                   manualPromptC |-> IF hasPrompt THEN "armed" ELSE "nil",
                   timeoutFired |-> FALSE, cbChan |-> <<>>, cbRes |-> NoCallback,
                   exchanges |-> 0, result |-> NoLoginResult, inTime |-> FALSE]

LoginError(l, err) == [l EXCEPT !.pc = "returned", !.result = [kind |-> "error", err |-> err]]

\* Login after waitForCallback with cbRes = res: the three tests, then
\* exchangeAntigravityCode, which succeeds (exchanged) or fails, and the
\* construction of the Auth.
Concluded(l, res, exchanged) ==
    LET l1 == [l EXCEPT !.cbRes = res]
    IN  IF res.Error # "" THEN LoginError(l1, "authentication failed")
        ELSE IF res.State # LoginState THEN LoginError(l1, "invalid state")
        ELSE IF res.Code = "" THEN LoginError(l1, "missing authorization code")
        ELSE IF ~exchanged
        THEN LoginError([l1 EXCEPT !.exchanges = @ + 1], "token exchange failed")
        ELSE [l1 EXCEPT !.exchanges = @ + 1, !.pc = "returned",
                        !.result = [kind |-> "auth", err |-> ""]]

\* The browser is redirected to /oauth-callback: the handler sends the
\* result on cbChan (capacity 1).  A Login blocked in the select receives
\* it at once.  inTime (history): a callback came before the 5 minutes.
LoginCallback ==
    /\ login.pc \in {"wait", "prompt"}
    /\ login.cbChan = <<>>
    /\ \E res \in Callbacks, exchanged \in BOOLEAN :
          LET l == [login EXCEPT !.inTime = @ \/ ~login.timeoutFired]
          IN  IF login.pc = "wait"
              THEN login' = Concluded(l, res, exchanged)
              ELSE /\ exchanged
                   /\ login' = [l EXCEPT !.cbChan = <<res>>]
    /\ UNCHANGED <<streamVars, pureVars, tokenVars, cacheVars, onboardVars, tokenStore>>

\* manualPromptTimer fires after 15 seconds: the select takes
\* case <-manualPromptC, finds cbChan empty and calls opts.Prompt.
LoginPromptTimer ==
    /\ login.pc = "wait"
    /\ login.manualPromptC = "armed"
    /\ login' = [login EXCEPT !.manualPromptC = "nil", !.pc = "prompt"]
    /\ UNCHANGED <<streamVars, pureVars, tokenVars, cacheVars, onboardVars, tokenStore>>

\* timeoutTimer fires after 5 minutes (manualPromptTimer has fired before):
\* a Login blocked in the select returns the timeout error, a Login inside
\* opts.Prompt does not notice.
LoginTimeout ==
    /\ login.pc \in {"wait", "prompt"}
    /\ ~login.timeoutFired
    /\ login.manualPromptC # "armed"
    /\ login' = IF login.pc = "wait"
                THEN LoginError([login EXCEPT !.timeoutFired = TRUE],
                                "authentication timed out")
                ELSE [login EXCEPT !.timeoutFired = TRUE]
    /\ UNCHANGED <<streamVars, pureVars, tokenVars, cacheVars, onboardVars, tokenStore>>

\* opts.Prompt returns: with an error, with input that
\* misc.ParseOAuthCallback rejects, with empty input (parsed == nil: back to
\* the select, which takes any case that is ready), or with a callback URL.
LoginPromptReturn ==
    /\ login.pc = "prompt"
    /\ \/ login' = LoginError(login, "prompt")
       \/ login' = LoginError(login, "parse")
       \/ \E res \in Callbacks, exchanged \in BOOLEAN :
             login' = Concluded([login EXCEPT !.inTime = @ \/ ~login.timeoutFired],
                                res, exchanged)
       \/ /\ login.cbChan # <<>>
          /\ \E exchanged \in BOOLEAN :
                login' = Concluded([login EXCEPT !.cbChan = <<>>],
                                   Head(login.cbChan), exchanged)
       \/ /\ login.timeoutFired
          /\ login' = LoginError(login, "authentication timed out")
       \/ /\ login.cbChan = <<>> /\ ~login.timeoutFired
          /\ login' = [login EXCEPT !.pc = "wait"]
    /\ UNCHANGED <<streamVars, pureVars, tokenVars, cacheVars, onboardVars, tokenStore>>

LoginNext ==
    \/ LoginCallback
    \/ LoginPromptTimer
    \/ LoginTimeout
    \/ LoginPromptReturn

LoginSpec == LoginInit /\ [][LoginNext]_vars

(* ------------------------------- claims -------------------------------- *)

\* Chunks that have left the reader goroutine, in the order they were sent.
Sent == received \o out

IsContextError(r) == r.kind = "error" /\ r.err = "context"

IsBare429Error(r) ==
    /\ r.kind = "error"
    /\ r.err = "status"
    /\ r.code = StatusTooManyRequests
    /\ parseRetryDelay(r.body) = <<>>

\* C1: Antigravity ExecuteStream with attempts = 1 + requestRetry and a live
\* request context: while the upstream has answered m < attempts calls, each
\* with a bare 429, no error has been returned; once the next call answers 200
\* with content, ExecuteStream has returned a stream; and in such a run no
\* StatusError with code 429 is returned.
C1_BareThenOKYieldsStream ==
    (op = "agStream" /\ fixture[1] # "off" /\ fixture[2] < attempts) =>
        /\ fixture[1] = "bare" => (result.kind = "none" \/ IsContextError(result))
        /\ fixture[1] = "ok" => (pc = "returned" /\ result.kind = "stream")
        /\ ~(result.kind = "error" /\ result.err = "status"
             /\ result.code = StatusTooManyRequests)

\* C1 witness: the largest admissible number of bare 429s (attempts - 1 > 0)
\* was answered, then a 200 with content, and the stream was returned.
C1_Witness ==
    /\ op = "agStream"
    /\ attempts > 1
    /\ fixture = <<"ok", attempts - 1>>
    /\ result.kind = "stream"

\* C2: a bare 429 is never returned to the caller of Antigravity Execute or
\* ExecuteStream as a StatusError with code 429, whatever the base-URL list
\* and the number of consecutive bare 429s.
C2_Bare429NeverSurfaced ==
    op \in {"agStream", "agExecute"} => ~IsBare429Error(result)

\* Every chunk that exists on the reader's side or the consumer's side.
AllChunks == received \o out \o sendq

\* The prelude of the current attempt is over and has buffered no chunk.
PreludeEndedEmpty == op = "agStream" /\ v.done /\ Len(v.bufferedChunks) = 0

\* No chunk of an attempt other than the current one exists, and while the
\* executor waits before a new attempt no channel has been created.
NoChunkOfDiscardedAttempt ==
    /\ \A p \in 1..Len(AllChunks) : AllChunks[p].att = attempt
    /\ pc \in {"request", "validate", "wait"} =>
           (AllChunks = <<>> /\ rpc = "idle" /\ result.kind # "stream")

EmptyPreludeClosedAndWaiting ==
    (PreludeEndedEmpty /\ ~v.scanErr /\ attempt < attempts - 1) =>
        /\ scanState = "closed"
        /\ v.needsRetry
        /\ pc = "wait" \/ (pc = "returned" /\ IsContextError(result))

\* Leaving the wait either starts the next attempt on the first base URL or
\* returns the context error.
WaitLeadsToRetry ==
    (pc = "wait" /\ pc' # "wait") =>
        \/ pc' = "request" /\ attempt' = attempt + 1 /\ idx' = 0 /\ ~v'.done
        \/ pc' = "returned" /\ IsContextError(result') /\ ctxDone

C4_MalformedNeverDropped ==
    ~(op = "agStream" /\ dropped /\ closed /\ scanState = "eof" /\ reporter.failure = 0)

\* The chunks of the chunk-producing lines b[l..], in upstream order.
RECURSIVE ExpectedChunks(_, _, _)
ExpectedChunks(a, b, l) ==
    IF l > Len(b) THEN <<>>
    ELSE (IF b[l] = "malfix" THEN RepairedChunk(a, l) ELSE TranslateStream(a, l, b[l]))
         \o ExpectedChunks(a, b, l + 1)

IsUpstreamChunk(c) == c.kind \in {"data", "repaired"}

Upstream(s) == SelectSeq(s, IsUpstreamChunk)

HasKind(s, kind) == \E p \in 1..Len(s) : s[p].kind = kind

\* C5: for an Antigravity stream whose body ends with normal EOF, the reader
\* feeds "[DONE]" to the translator at most once and exactly once before the
\* channel is closed, only after every upstream-derived chunk has been sent;
\* the sentinel's output is the last chunk sent, and the channel is closed
\* only after it.
C5_StreamTerminality ==
    (op = "agStream" /\ scanState = "eof" /\ result.kind = "stream") =>
        /\ doneFed <= 1
        /\ doneFed = 1 =>
              /\ rpc \in {"finish", "close", "closed"}
              /\ Upstream(Sent) = ExpectedChunks(attempt, body, 1)
              /\ Upstream(sendq) = <<>>
        /\ \A p \in 1..Len(AllChunks) :
              AllChunks[p].kind = "done" => (doneFed = 1 /\ p = Len(AllChunks))
        /\ ~HasKind(AllChunks, "err")
        /\ closed => (doneFed = 1 /\ sendq = <<>>)

\* C5 witness: a stream with upstream chunks ended with EOF, the sentinel's
\* chunk was received last and the channel is closed.
C5_Witness ==
    /\ op = "agStream" /\ scanState = "eof" /\ closed
    /\ Len(body) >= 1
    /\ Len(received) >= 2
    /\ received[Len(received)].kind = "done"
    /\ out = <<>>

\* C6: for every stream returned by ExecuteStream (Antigravity and Copilot)
\* the reader calls ensurePublished (no scanner error) or publishFailure
\* (scanner error), never both, at most once while the channel is open and
\* exactly once by the time the channel is closed.
C6_ExactlyOneFinalPublish ==
    (op \in {"agStream", "cpStream"}) =>
        /\ reporter.ensure + reporter.failure <= 1
        /\ closed => reporter.ensure + reporter.failure = 1
        /\ reporter.ensure = 1 => scanState = "eof"
        /\ reporter.failure = 1 => scanState = "err"
        /\ reporter.ensure + reporter.failure = 1 => rpc \in {"close", "closed"}

\* C6 witness: a stream that ended with a scanner error is closed after
\* publishFailure alone was called.
C6_Witness ==
    /\ op \in {"agStream", "cpStream"}
    /\ closed /\ scanState = "err"
    /\ reporter.failure = 1 /\ reporter.ensure = 0

\* C7: when the scanner of the Antigravity reader ends with an error, no
\* terminal-sentinel chunk is emitted, and the error chunk is the only chunk
\* sent after the last upstream-derived chunk.
C7_NoSentinelOnScanError ==
    (op = "agStream" /\ scanState = "err") =>
        /\ ~HasKind(AllChunks, "done")
        /\ \A p \in 1..Len(AllChunks) :
              ~IsUpstreamChunk(AllChunks[p]) =>
                  (AllChunks[p].kind = "err" /\ p = Len(AllChunks))

\* C8: on the stream channel (Antigravity and Copilot) the upstream-derived
\* chunks sent or about to be sent are exactly the chunks of the lines read
\* so far, in upstream order: the chunks buffered by the prelude first, then
\* those of later lines, every chunk of line i before any chunk of line i+1,
\* none duplicated, none lost.
C8_UpstreamOrder ==
    /\ (op = "agStream" /\ pc = "validate") =>
           v.bufferedChunks = ExpectedChunks(attempt, body, 1)
    /\ result.kind = "stream" =>
           /\ Upstream(AllChunks) = ExpectedChunks(attempt, body, 1)
           /\ \A p \in 1..Len(AllChunks) : \A q \in (p + 1)..Len(AllChunks) :
                  \/ AllChunks[p].line < AllChunks[q].line
                  \/ AllChunks[p].line = AllChunks[q].line /\ AllChunks[p].k < AllChunks[q].k
           /\ op = "agStream" =>
                  \A p \in 1..Len(v.bufferedChunks) :
                      p <= Len(AllChunks) /\ AllChunks[p] = v.bufferedChunks[p]

\* C8 witness: an Antigravity stream delivered a two-chunk line buffered by
\* the prelude and then the chunk of a later line, and is closed.
C8_Witness ==
    /\ op = "agStream" /\ closed /\ out = <<>>
    /\ Len(v.bufferedChunks) = 2
    /\ Len(received) >= 3
    /\ received[1] = v.bufferedChunks[1]
    /\ received[3].line = 2 /\ received[3].kind = "data"

\* The reader goroutine is stuck in "out <- chunk": the channel has no room
\* (or no buffer) and the consumer has stopped receiving.  No action makes
\* the consumer receive again, so a reader in this state stays in it.
ReaderBlockedForever ==
    /\ rpc \in {"scan", "finish", "close"}
    /\ sendq # <<>>
    /\ ~consumerActive
    /\ (outCap = 0 \/ Len(out) >= outCap)

\* C9: after the request context is cancelled the reader goroutine of a
\* stream (Antigravity and Copilot) never stays blocked forever on a channel
\* send, the consumer having stopped receiving included.
C9_ReaderNeverBlockedForever ==
    (result.kind = "stream" /\ ctxDone) => ~ReaderBlockedForever

\* C10: within one ExecuteStream attempt, a transport error, a bare 429 or a
\* 503 "no capacity available" answered by base URL i, a base URL i+1
\* existing and the context being live, makes the next upstream request go
\* to base URL i+1 of the same attempt.
C10_StreamFallbackStep ==
    (/\ op = "agStream"
     /\ pc = "request"
     /\ pc' # "request" \/ idx' # idx     \* an upstream request was answered
     /\ answer' \in {"neterr", "readerr", "bare429", "nocap503"}
     /\ pc' # "validate"
     /\ idx + 1 < Len(baseURLs))
        => (pc' = "request" /\ idx' = idx + 1 /\ attempt' = attempt)

C10_EndpointFallback == [][C10_StreamFallbackStep]_vars

\* An upstream call of Execute / ExecuteStream was answered in this step.
UpstreamAnswered ==
    /\ op \in {"agStream", "agExecute"}
    /\ pc = "request"
    /\ pc' # "request" \/ idx' # idx

C11_ExhaustedStep ==
    (/\ UpstreamAnswered /\ op = "agStream"
     /\ answer' \in {"neterr", "readerr", "bare429", "nocap503"}
     /\ idx + 1 = Len(baseURLs)
     /\ attempt < attempts - 1)
        => (pc' = "wait" /\ result' = NoResult)

\* C11: in ExecuteStream, when the last base URL of an attempt (every
\* earlier one having failed too) fails with a transport error or a
\* retry-worthy status, an attempt remaining and the context live, the
\* executor returns no error: it waits before a new attempt.
C11_ExhaustedAttemptRetried == [][C11_ExhaustedStep]_vars

\* The outcome is a non-2xx status that is neither a 429 nor a 503
\* "no capacity available".
NotRetryWorthy(o) ==
    /\ o.t = "http"
    /\ o.status < StatusOK \/ o.status >= StatusMultipleChoices
    /\ o.status # StatusTooManyRequests
    /\ ~(o.status = StatusServiceUnavailable /\ o.body = "nocapacity")

C12_ImmediateStatusErrorStep ==
    (UpstreamAnswered /\ NotRetryWorthy(lastOutcome')) =>
        /\ pc' = "returned"
        /\ result' = [kind |-> "error", err |-> "status", code |-> lastOutcome'.status,
                      body |-> lastOutcome'.body, retryAfter |-> <<>>]
        /\ idx' = idx /\ attempt' = attempt

\* C12: in Antigravity Execute and ExecuteStream a non-2xx answer that is
\* not retry-worthy, from any base URL, makes the call return at once a
\* StatusError with that status code and body; once returned, no further
\* base URL or attempt is tried.
C12_NonRetryWorthyReturned ==
    /\ [][C12_ImmediateStatusErrorStep]_vars
    /\ [][(op \in {"agStream", "agExecute"} /\ pc = "returned")
             => (pc' = "returned" /\ result' = result /\ idx' = idx
                 /\ attempt' = attempt /\ lastOutcome' = lastOutcome)]_vars

\* C12 witness: the second base URL answered 500 and the call returned
\* StatusError 500 with the body of that answer.
C12_Witness ==
    /\ op = "agStream" /\ pc = "returned" /\ idx = 1
    /\ result.kind = "error" /\ result.err = "status"
    /\ result.code = 500 /\ result.body = "nocapacity"

C13_LastURL429Step ==
    (/\ UpstreamAnswered
     /\ lastOutcome'.t = "http" /\ lastOutcome'.status = StatusTooManyRequests
     /\ parseRetryDelay(lastOutcome'.body) # <<>>
     /\ idx + 1 = Len(baseURLs))
        => /\ pc' = "returned"
           /\ result' = [kind |-> "error", err |-> "status", code |-> StatusTooManyRequests,
                         body |-> lastOutcome'.body,
                         retryAfter |-> parseRetryDelay(lastOutcome'.body)]

C13_RetryAfterOnly429 ==
    (result.kind = "error" /\ result.err = "status") =>
        /\ result.code # StatusTooManyRequests => result.retryAfter = <<>>
        /\ (op \in {"agStream", "agExecute"} /\ result.code = StatusTooManyRequests)
               => result.retryAfter = parseRetryDelay(result.body)

\* C13: a 429 with structured retry information answered by the last base
\* URL is returned as StatusError 429 with that body and retryAfter equal to
\* the delay parsed from it; a StatusError whose code is not 429 never
\* carries retryAfter.
C13_RetryAfterFromBody ==
    /\ []C13_RetryAfterOnly429
    /\ [][C13_LastURL429Step]_vars

\* C13 witness: the third of three base URLs answered a 429 with retry
\* information and the StatusError carries the parsed delay.
C13_Witness ==
    /\ op \in {"agStream", "agExecute"} /\ pc = "returned"
    /\ Len(baseURLs) = 3 /\ idx = 2
    /\ result.kind = "error" /\ result.code = StatusTooManyRequests
    /\ result.retryAfter = <<5>>

C14_CallStep ==
    (UpstreamAnswered /\ ctxDone) =>
        /\ lastOutcome'.t = "ctxerr"
        /\ pc' = "returned" /\ IsContextError(result')

C14_WaitStep ==
    (op = "agStream" /\ ctxDone /\ pc = "wait" /\ pc' # "wait") =>
        \/ pc' = "returned" /\ IsContextError(result')
        \/ timerFired /\ pc' = "request"

\* C14: once the request context is done, an upstream call of Antigravity
\* Execute / ExecuteStream yields only the context error, which is returned
\* at once (no next base URL, no next attempt); a backoff wait ends with the
\* context error, or - the timer having fired as well - with one more call
\* that yields the context error.
C14_ContextErrorReturned ==
    /\ [][C14_CallStep]_vars
    /\ [][C14_WaitStep]_vars

\* C14 witness: the context was cancelled during the wait that followed a
\* bare 429, and ExecuteStream returned the context error.
C14_Witness ==
    /\ op = "agStream" /\ pc = "returned" /\ ctxDone
    /\ lastOutcome.t = "http" /\ answer = "bare429"
    /\ IsContextError(result)

\* The retry setting r of the claim: the override when present, else
\* cfg.RequestRetry, else 0.
ClaimedRetry == 
    IF call.override # <<>> THEN call.override[1]
    ELSE IF call.cfg # <<>> THEN call.cfg[1] ELSE 0

Max(x, y) == IF x >= y THEN x ELSE y

Min(x, y) == IF x <= y THEN x ELSE y

RetryAttemptsReturned == call.fn = "antigravityRetryAttempts" /\ ret # NoRet

RetryDelayReturned == call.fn = "antigravityNoCapacityRetryDelay" /\ ret # NoRet

\* min(250 ms * (a+1), 2 s) in units of 250 ms, for a >= 0 (as a number,
\* not as an int: the value for the largest int is the cap).
ClaimedDelay(a) ==
    IF a >= retryDelayCapMs \div retryDelayStepMs
    THEN retryDelayCapMs \div retryDelayStepMs
    ELSE Min(a + 1, retryDelayCapMs \div retryDelayStepMs)

\* C15 (as stated): antigravityRetryAttempts is 1 + max(0, r) and at least 1;
\* antigravityNoCapacityRetryDelay(a) is min(250 ms * (a+1), 2 s) for every
\* a >= 0, the same as for 0 when a < 0, and non-decreasing in a.
C15_RetryBudgetAndBackoff ==
    /\ RetryAttemptsReturned =>
          /\ ret[1] >= 1
          /\ ret[1] - 1 = Max(0, ClaimedRetry)
    /\ RetryDelayReturned =>
          /\ call.a >= 0 => ret[1] = ClaimedDelay(call.a)
          /\ call.a < 0 => ret[1] = ClaimedDelay(0)
          /\ call.a <= call.b => ret[1] <= ret[2]

\* C15 (amended): attempts >= 1 always; attempts = 1 + max(0, r) for every r
\* below the largest int, and 1 for the largest int (r + 1 wraps around);
\* the delay is min(250 ms * (a+1), 2 s) for 0 <= a below the largest int,
\* the same as for 0 when a < 0, and non-decreasing in a below the largest
\* int.
C15_RetryBudgetAndBackoffInRange ==
    /\ RetryAttemptsReturned =>
          /\ ret[1] >= 1
          /\ ClaimedRetry < MaxInt => ret[1] - 1 = Max(0, ClaimedRetry)
          /\ ClaimedRetry = MaxInt => ret[1] = 1
    /\ RetryDelayReturned =>
          /\ (call.a >= 0 /\ call.a < MaxInt) => ret[1] = ClaimedDelay(call.a)
          /\ call.a < 0 => ret[1] = ClaimedDelay(0)
          /\ (call.a <= call.b /\ call.b < MaxInt) => ret[1] <= ret[2]

\* C15 witness: a delay below the cap and a capped one were computed.
C15_Witness ==
    /\ RetryDelayReturned
    /\ call.a = 2 /\ call.b = 9
    /\ ret = <<3, 8>>

\* ensureAccessToken, called with an Auth, takes its first step.
EnsureDecides ==
    /\ tokOp = "ensureAccessToken"
    /\ tokPc = "call"
    /\ tokPc' # "call"
    /\ ~callerAuth.isNil

\* refreshToken has been called (its argument auth.Clone() exists).
RefreshPerformed == ~cloneAuth.isNil

\* ensureAccessToken has returned the token of the caller's Auth as it is.
StoredTokenHandedOut ==
    /\ tokOp = "ensureAccessToken"
    /\ tokPc = "returned"
    /\ tokRet.err = "none"
    /\ tokRet.updated = NilAuth
    /\ ~callerAuth.isNil
    /\ tokRet.token = metaStringValue(heap, callerAuth.meta, "access_token")

\* The expiry is missing or unparseable: no RFC 3339 "expired", and not both
\* of "expires_in" and "timestamp" as numbers.
NoUsableExpiry ==
    \/ callerAuth.meta = NilMap
    \/ /\ ~(heap[callerAuth.meta]["expired"].ty = "string"
              /\ heap[callerAuth.meta]["expired"].text = "rfc3339")
       /\ \/ int64Value(heap[callerAuth.meta]["expires_in"]) = <<>>
          \/ int64Value(heap[callerAuth.meta]["timestamp"]) = <<>>

C16_DecisionStep ==
    EnsureDecides =>
        LET fresh == /\ metaStringValue(heap, callerAuth.meta, "access_token") # ""
                     /\ tokenExpiry(heap, callerAuth.meta) > clock + refreshSkew
        IN  /\ StoredTokenHandedOut' <=> fresh
            /\ RefreshPerformed' <=> ~fresh
            /\ NoUsableExpiry => RefreshPerformed'

C16_NeverStale ==
    StoredTokenHandedOut /\ ~RefreshPerformed =>
        ~(clock + refreshSkew >= tokenExpiry(heap, callerAuth.meta))

\* C16: ensureAccessToken, given an Auth, returns the stored access token
\* without refreshing if and only if the token is non-empty and its expiry
\* is strictly later than now + refreshSkew (3000 s); in every other case,
\* a missing or unparseable expiry included, it calls refreshToken; so a
\* stored token is never handed out with now + refreshSkew >= expiry.
C16_StoredTokenOnlyWhenFresh ==
    /\ []C16_NeverStale
    /\ [][C16_DecisionStep]_vars

\* The stored token is handed out one millisecond inside the limit, with the
\* expiry computed from "timestamp" and "expires_in".
C16_Witness ==
    /\ StoredTokenHandedOut
    /\ ~RefreshPerformed
    /\ tokRet.token = "tok0"
    /\ heap[callerAuth.meta]["expired"].ty = "nil"
    /\ tokenExpiry(heap, callerAuth.meta) = clock + refreshSkew + 1

\* The refresh started by ensureAccessToken is waiting for the token endpoint.
EnsureRefreshInFlight == tokOp = "ensureAccessToken" /\ tokPc = "inflight"

\* The context of that refresh is a background context that carries the
\* request context's round-tripper and nothing else of it.
C17_BackgroundContext ==
    tokOp = "ensureAccessToken" /\ RefreshPerformed =>
        /\ refreshCtx.parent = "background"
        /\ refreshCtx.rt = (IF reqCtx.rt = "rt0" THEN "rt0" ELSE "none")
        /\ ~ContextDone(refreshCtx, reqCtx)

\* Cancelling the request context leaves the refresh in flight, and a
\* refresh that ends after the cancellation does not end with the context's
\* error.
C17_CancelStep ==
    /\ EnsureRefreshInFlight /\ reqCtx'.done =>
           \/ EnsureRefreshInFlight' /\ refreshCtx' = refreshCtx
           \/ tokPc' = "returned" /\ tokRet'.err # "ctxerr"

\* C17: the refresh started by ensureAccessToken runs under a context that
\* is not derived from the request context: cancelling the request context
\* while the refresh is in flight does not abort it, and of the request
\* context only the round-tripper value is carried over.
C17_RefreshOutlivesRequest ==
    /\ []C17_BackgroundContext
    /\ [][C17_CancelStep]_vars

\* The request was cancelled while the refresh was in flight, and the
\* refresh, sent through the request's round-tripper, still succeeded.
C17_Witness ==
    /\ tokOp = "ensureAccessToken"
    /\ tokPc = "returned"
    /\ reqCtx.at = "inflight"
    /\ refreshCtx.rt = "rt0"
    /\ tokRet.err = "none"
    /\ tokRet.token = "tok1"

\* The maps of the caller's Auth.
CallerMaps == {callerAuth.meta, callerAuth.attrs} \ {NilMap}

\* No step writes to the caller's Auth or to the maps it points to.
C18_FrameStep ==
    /\ callerAuth' = callerAuth
    /\ \A a \in CallerMaps : heap'[a] = heap[a]

\* A failed refresh returns no Auth; a successful one returns an Auth with
\* maps of its own, which hold the refreshed fields.
C18_ReturnedCopy ==
    tokPc = "returned" /\ RefreshPerformed =>
        IF tokRet.err # "none"
        THEN tokRet.updated = NilAuth
        ELSE /\ ~tokRet.updated.isNil
             /\ {tokRet.updated.meta, tokRet.updated.attrs} \cap CallerMaps = {}
             /\ heap[tokRet.updated.meta]["access_token"].text = "tok1"
             /\ heap[tokRet.updated.meta]["expires_in"] = Int64(3599)
             /\ heap[tokRet.updated.meta]["timestamp"] = Int64(clock)
             /\ heap[tokRet.updated.meta]["expired"].text = "rfc3339"
             /\ heap[tokRet.updated.attrs] = heap[callerAuth.attrs]

\* C18: ensureAccessToken and Refresh never modify the Metadata or the
\* Attributes of the Auth the caller passes in: the refreshed fields
\* (access_token, refresh_token, expires_in, timestamp, expired, project_id)
\* appear only on the returned copy, and after a failed refresh the caller's
\* Auth is as it was.
C18_CallerAuthUntouched ==
    /\ []C18_ReturnedCopy
    /\ [][C18_FrameStep]_vars

\* A refresh has succeeded: the caller's Auth still holds the old tokens and
\* no project, the returned copy the new tokens and the project.
C18_Witness ==
    /\ tokPc = "returned"
    /\ tokRet.err = "none"
    /\ ~tokRet.updated.isNil
    /\ heap[callerAuth.meta]["access_token"] = Str(FALSE, "tok0", 0)
    /\ heap[callerAuth.meta]["refresh_token"] = Str(FALSE, "r0", 0)
    /\ heap[callerAuth.meta]["project_id"] = Nil
    /\ heap[tokRet.updated.meta]["access_token"] = Str(FALSE, "tok1", 0)
    /\ heap[tokRet.updated.meta]["refresh_token"] = Str(FALSE, "r1", 0)
    /\ heap[tokRet.updated.meta]["project_id"] = Str(FALSE, "proj1", 0)

\* ensureAPIToken returns a token from the cache in this step.
ReturnsCached == apiRet'.kind = "cached" /\ apiRet' # apiRet

\* Caller c calls ensureAPIToken with access token k in this step.
CallsWith(c, k) ==
    /\ callers[c].pc = "idle"
    /\ \/ callers'[c] = [pc |-> "fetching", key |-> k]
       \/ apiRet' # apiRet /\ apiRet' = APIRet("cached", c, k, apiRet'.token, 0)

C19_CacheStep ==
    /\ ReturnsCached =>
           /\ cache[apiRet'.key].present
           /\ cache[apiRet'.key].expiresAt > clock + 5 * Minute
           /\ apiRet'.token = cache[apiRet'.key].token
           /\ cache' = cache
    /\ \A c \in Callers, k \in AccessKeys :
           CallsWith(c, k) =>
               IF cache[k].present /\ cache[k].expiresAt > clock + 5 * Minute
               THEN apiRet'.kind = "cached"
               ELSE callers'[c].pc = "fetching"
    /\ apiRet'.kind = "fetched" /\ apiRet' # apiRet =>
           /\ cache'[apiRet'.key].present
           /\ cache'[apiRet'.key].token = apiRet'.token
           /\ cache'[apiRet'.key].expiresAt =
                  (IF apiRet'.upstream > 0
                   THEN apiRet'.upstream * Second
                   ELSE clock + 25 * Minute)
           /\ \A k \in AccessKeys \ {apiRet'.key} : cache'[k] = cache[k]

\* C19: ensureAPIToken returns a cached API token only when the cached
\* expiresAt is strictly later than now + 5 minutes; otherwise it fetches a
\* new token and, when the fetch succeeds, stores it under the same access
\* token with expiresAt = the upstream ExpiresAt when positive, else now +
\* 25 minutes.  So, after any sequence of calls, a token returned from the
\* cache is never within 5 minutes of its recorded expiry.
C19_CachedTokenNeverNearExpiry == [][C19_CacheStep]_vars

\* A token stored with the 25-minute default is returned from the cache 15
\* minutes later, 10 minutes before its recorded expiry.
C19_Witness ==
    /\ apiRet.kind = "cached"
    /\ cache[apiRet.key].token = apiRet.token
    /\ apiRet.token = UpstreamToken(apiRet.key, clock - 15 * Minute)
    /\ cache[apiRet.key].expiresAt = clock + 10 * Minute

\* s is p followed by something.
StartsWith(s, p) == \E n \in 0..Len(s) : SubSeq(s, 1, n) = p

\* The name without one leading "copilot-".
WithoutProvider(name) ==
    IF StartsWith(name, CopilotPrefix)
    THEN [i \in 1..(Len(name) - Len(CopilotPrefix)) |-> name[i + Len(CopilotPrefix)]]
    ELSE name

CopilotRouteReturned == call.fn = "copilotRoute" /\ ret # NoRet

NormalizeThinkingReturned == call.fn = "normalizeCopilotClaudeThinking" /\ ret # NoRet

\* max_tokens of the body, or the registry's MaxCompletionTokens when the
\* body has none; 0 when there is neither.
EffectiveMaxTokens(info, b) ==
    IF b.max_tokens # Absent THEN b.max_tokens[1]
    ELSE IF info # Absent THEN info[1].MaxCompletionTokens
    ELSE 0

ThinkingDisabled(b) ==
    b.thinking # Absent /\ b.thinking[1].type.text = "disabled"

\* The budget after normalization to the model's range and clamping below
\* max_tokens.
ClaimedBudget(info, b) ==
    LET given == GJSONInt(b.thinking[1].budget_tokens)
        start == IF given <= 0 THEN NormalizeThinkingBudget(info, -1) ELSE given
    IN  Min(NormalizeThinkingBudget(info, start), EffectiveMaxTokens(info, b) - 1)

\* C21: after normalizeCopilotClaudeThinking on a thinking-capable model
\* whose body has a positive max_tokens (own or registry fallback) and a
\* thinking object whose type is not "disabled", the output either has no
\* thinking field (normalized budget positive and below the model minimum)
\* or has thinking.type = "enabled" and thinking.budget_tokens < max_tokens;
\* a body without thinking, or with thinking.type = "disabled", keeps its
\* thinking field unchanged.
C21_ThinkingBudgetBelowMaxTokens ==
    NormalizeThinkingReturned =>
        LET info == call.info
            b    == call.body
            res  == ret[1]
        IN  /\ (/\ ModelSupportsThinking(info)
                /\ EffectiveMaxTokens(info, b) > 0
                /\ b.thinking # Absent
                /\ ~ThinkingDisabled(b)) =>
                   LET n == ClaimedBudget(info, b)
                   IN  IF n > 0 /\ n < minThinkingBudget(info)
                       THEN res.thinking = Absent
                       ELSE /\ res.thinking # Absent
                            /\ res.thinking[1].type = [text |-> "enabled", exact |-> TRUE]
                            /\ res.max_tokens # Absent
                            /\ res.thinking[1].budget_tokens # Absent
                            /\ res.thinking[1].budget_tokens[1] < res.max_tokens[1]
                            /\ res.thinking[1].budget_tokens[1] = n
            /\ (b.thinking = Absent \/ ThinkingDisabled(b)) => res.thinking = b.thinking

\* A budget of 10 with max_tokens 5 on a model with range 4..8 becomes 4.
C21_Witness ==
    /\ NormalizeThinkingReturned
    /\ call.body.max_tokens = <<5>>
    /\ call.body.thinking # Absent
    /\ call.body.thinking[1].budget_tokens = <<10>>
    /\ call.body.thinking[1].type.text = "adaptive"
    /\ ret[1].thinking = <<[type |-> [text |-> "enabled", exact |-> TRUE],
                            budget_tokens |-> <<4>>]>>

\* The reference matcher: '*' matches zero or more characters, every other
\* character only itself.
RECURSIVE GlobMatch(_, _)
GlobMatch(p, s) ==
    IF p = <<>> THEN s = <<>>
    ELSE IF Head(p) = "*"
    THEN \E k \in 0..Len(s) : GlobMatch(Tail(p), SubSeq(s, k + 1, Len(s)))
    ELSE s # <<>> /\ Head(s) = Head(p) /\ GlobMatch(Tail(p), Tail(s))

MatchReturned == call.fn = "matchModelPattern" /\ ret # NoRet

\* C24: matchModelPattern(pattern, model), on the pattern and the name
\* without surrounding white space, agrees with the reference glob matcher
\* for all patterns and model names, with any number of '*' in the pattern:
\* a blank pattern matches nothing, "*" matches every model, and a pattern
\* without '*' matches only the identical name.
C24_GlobAgreesWithReference ==
    MatchReturned =>
        LET p == TrimSpaceSeq(call.pattern)
            s == TrimSpaceSeq(call.model)
        IN  ret[1] = (p # <<>> /\ GlobMatch(p, s))

\* The same for model names without '*': there the two agree.
C24_GlobAgreesOnPlainNames ==
    MatchReturned /\ (\A i \in 1..Len(call.model) : call.model[i] # "*") =>
        LET p == TrimSpaceSeq(call.pattern)
            s == TrimSpaceSeq(call.model)
        IN  ret[1] = (p # <<>> /\ GlobMatch(p, s))

RulesMatchReturned == call.fn = "payloadModelRulesMatch" /\ ret # NoRet

\* The protocol of a rule entry is compatible with the call's: equal
\* ignoring case, or one of the two is empty.
ProtocolCompatible(entry, protocol) ==
    \/ TrimSpaceSeq(entry.Protocol) = <<>>
    \/ protocol = <<>>
    \/ ToLowerSeq(TrimSpaceSeq(entry.Protocol)) = ToLowerSeq(protocol)

\* The names a rule may match: the resolved model, and the requested model
\* without and with its suffix.
ClaimedCandidates(model, requested) ==
    {n \in {TrimSpaceSeq(model), TrimSpaceSeq(requested),
            TrimSpaceSeq(ParseSuffix(TrimSpaceSeq(requested)).ModelName)} : n # <<>>}

C25_Holds(rulesArg, protocol, model, requested, matched) ==
    (\E j \in 1..Len(rulesArg), n \in ClaimedCandidates(model, requested) :
        /\ ProtocolCompatible(rulesArg[j], protocol)
        /\ matchModelPattern(rulesArg[j].Name, n))
    => matched

\* C25: a payload rule whose protocol is compatible with the call is
\* applied whenever its model glob matches at least one of the resolved
\* upstream model, the client-requested model without suffix, or the
\* client-requested model with its suffix, for every combination of
\* resolved and requested names, names that differ only in letter case
\* included.
C25_RuleAppliedOnAnyCandidate ==
    RulesMatchReturned =>
        C25_Holds(call.rules, call.protocol, call.model, call.requestedModel, ret[1])

\* The same when the resolved and the requested names do not differ only in
\* letter case: there the rule is applied.
C25_RuleAppliedOnDistinctNames ==
    /\ RulesMatchReturned
    /\ \A x, y \in ClaimedCandidates(call.model, call.requestedModel) :
           ToLowerSeq(x) = ToLowerSeq(y) => x = y
    => C25_Holds(call.rules, call.protocol, call.model, call.requestedModel, ret[1])

PayloadReturned == call.fn = "applyPayloadConfigWithRoot" /\ ret # NoRet

\* Every key/value rule of the list has the one key "a".
OnPathA(rules) ==
    \A i \in 1..Len(rules) :
        Len(rules[i].Params) = 1 /\ rules[i].Params[1].key = <<"a">>

\* The call passed the early returns, and its rules address the path "a"
\* (a filter may name "b" instead).
PrecedenceCase ==
    /\ PayloadReturned
    /\ ~call.cfg.nil /\ ~call.payload.empty
    /\ TrimSpaceSeq(call.model) # <<>>
    /\ OnPathA(call.cfg.Payload.Default) /\ OnPathA(call.cfg.Payload.DefaultRaw)
    /\ OnPathA(call.cfg.Payload.Override) /\ OnPathA(call.cfg.Payload.OverrideRaw)
    /\ \A i \in 1..Len(call.cfg.Payload.Filter) :
           call.cfg.Payload.Filter[i].Params \in {<< <<"a">> >>, << <<"b">> >>}

\* The segments of the path the rules of a precedence call address, and
\* what the returned payload holds there (Absent when nothing).
TargetPath == SplitDots(buildPayloadPath(call.root, <<"a">>))

ValueAt(doc, path) ==
    IF \E l \in doc : l.path = path
    THEN <<(CHOOSE l \in doc : l.path = path).val>>
    ELSE Absent

\* Rule i of the list matches the model of the call.
RuleMatches(rules, i) ==
    \E e \in 1..Len(rules[i].Models) : matchModelPattern(rules[i].Models[e].Name, call.model)

\* The JSON value rule i of a key/value list writes at "a", as a sequence:
\* none when the rule does not match, or is raw and has a nil value.
Written(rules, i, raw) ==
    IF ~RuleMatches(rules, i) THEN <<>>
    ELSE LET value == rules[i].Params[1].value
         IN  IF raw
             THEN IF value.t = "nil" THEN <<>> ELSE <<JNum(value.v)>>
             ELSE <<IF value.t = "nil" THEN JNull
                    ELSE IF value.t = "str" THEN JStr(value.v)
                    ELSE JNum(value.v)>>

\* All values written by a list, in rule order.
RECURSIVE Writes(_, _, _)
Writes(rules, i, raw) ==
    IF i > Len(rules) THEN <<>>
    ELSE Written(rules, i, raw) \o Writes(rules, i + 1, raw)

DefaultWrites ==
    Writes(call.cfg.Payload.Default, 1, FALSE) \o Writes(call.cfg.Payload.DefaultRaw, 1, TRUE)

OverrideWrites ==
    Writes(call.cfg.Payload.Override, 1, FALSE) \o Writes(call.cfg.Payload.OverrideRaw, 1, TRUE)

FilterHits ==
    \E i \in 1..Len(call.cfg.Payload.Filter) :
        /\ RuleMatches(call.cfg.Payload.Filter, i)
        /\ call.cfg.Payload.Filter[i].Params = << <<"a">> >>

\* The path is absent from the payload the defaults are tested against.
AbsentInSource ==
    ValueAt((IF call.original.empty THEN call.payload ELSE call.original).doc,
            TargetPath) = Absent

\* C22: with several matching rules on one path, the kinds are applied in
\* the order default, default-raw, override, override-raw, filter: a
\* matching filter leaves the path absent; else the last override or
\* override-raw in that order gives the value; else the first default or
\* default-raw in that order gives it, and later defaults do not change it.
C22_RulePrecedence ==
    PrecedenceCase =>
        ValueAt(ret[1].doc, TargetPath) =
            IF FilterHits THEN Absent
            ELSE IF OverrideWrites # <<>>
            THEN <<OverrideWrites[Len(OverrideWrites)]>>
            ELSE IF AbsentInSource /\ DefaultWrites # <<>>
            THEN <<DefaultWrites[1]>>
            ELSE ValueAt(call.payload.doc, TargetPath)

\* Two defaults match and no override or filter does: the first one's value
\* stands.
C22_Witness ==
    /\ PrecedenceCase
    /\ Len(DefaultWrites) >= 2
    /\ AbsentInSource
    /\ OverrideWrites = <<>>
    /\ ~FilterHits
    /\ ValueAt(ret[1].doc, TargetPath) = <<DefaultWrites[1]>>
    /\ DefaultWrites[2] # DefaultWrites[1]

\* A default or default-raw rule matches and has a value to write, and no
\* override or filter touches the path afterwards.
DefaultOnlyCase ==
    /\ PrecedenceCase
    /\ DefaultWrites # <<>>
    /\ OverrideWrites = <<>>
    /\ ~FilterHits

\* The returned payload holds a value of one of the default rules at the path
\* (the payloads of these calls hold none of those values).
DefaultWritten ==
    \E i \in 1..Len(DefaultWrites) :
        ValueAt(ret[1].doc, TargetPath) = <<DefaultWrites[i]>>

\* The path is absent from the original payload or, when no original is
\* supplied, from the working payload.
AbsentInOriginal ==
    IF call.original.empty
    THEN ValueAt(call.payload.doc, TargetPath) = Absent
    ELSE ValueAt(call.original.doc, TargetPath) = Absent

\* C23: a matching default or default-raw rule writes a path if and only if
\* the path is absent from the original translated payload, whatever the
\* working payload holds there; without an original payload the working
\* payload is the one tested. A path that is not written keeps what the
\* working payload held.
C23_DefaultTestsOriginal ==
    DefaultOnlyCase =>
        /\ DefaultWritten <=> AbsentInOriginal
        /\ ~DefaultWritten =>
               ValueAt(ret[1].doc, TargetPath) = ValueAt(call.payload.doc, TargetPath)

\* The original lacks the path, the working payload holds a value there, and
\* the default replaced it.
C23_Witness ==
    /\ DefaultOnlyCase
    /\ ~call.original.empty
    /\ AbsentInOriginal
    /\ ValueAt(call.payload.doc, TargetPath) # Absent
    /\ DefaultWritten

\* The leaves of a document outside the root.
OutsideRoot(doc, root) ==
    {l \in doc : ~IsPrefix(SplitDots(TrimSpaceSeq(root)), l.path)}

\* Some rule of the list is matched by the resolved or the requested model.
SomeRuleMatches(rules) ==
    \E i \in 1..Len(rules) :
        \E e \in 1..Len(rules[i].Models),
           n \in ClaimedCandidates(call.model, call.requestedModel) :
            matchModelPattern(rules[i].Models[e].Name, n)

\* One of the conditions under which the payload is returned as it was.
NothingToApply ==
    \/ call.cfg.nil
    \/ call.payload.empty
    \/ /\ call.cfg.Payload.Default = <<>> /\ call.cfg.Payload.DefaultRaw = <<>>
       /\ call.cfg.Payload.Override = <<>> /\ call.cfg.Payload.OverrideRaw = <<>>
       /\ call.cfg.Payload.Filter = <<>>
    \/ TrimSpaceSeq(call.model) = <<>> /\ TrimSpaceSeq(call.requestedModel) = <<>>
    \/ /\ ~SomeRuleMatches(call.cfg.Payload.Default)
       /\ ~SomeRuleMatches(call.cfg.Payload.DefaultRaw)
       /\ ~SomeRuleMatches(call.cfg.Payload.Override)
       /\ ~SomeRuleMatches(call.cfg.Payload.OverrideRaw)
       /\ ~SomeRuleMatches(call.cfg.Payload.Filter)

\* C26: with a non-empty root every write and delete of
\* applyPayloadConfigWithRoot is at the root or below it, so the fields
\* outside the root are as they were; and with a nil config, an empty
\* payload, no rule in any list, two blank model names or no matching rule
\* the payload is returned unchanged.
C26_RootFrameAndEarlyReturns ==
    PayloadReturned =>
        /\ TrimSpaceSeq(call.root) # <<>> =>
               OutsideRoot(ret[1].doc, call.root) = OutsideRoot(call.payload.doc, call.root)
        /\ NothingToApply => ret[1] = call.payload

\* Under a root a rule changed the payload, and what is outside the root is
\* as it was.
C26_Witness ==
    /\ PayloadReturned
    /\ TrimSpaceSeq(call.root) # <<>>
    /\ ret[1] # call.payload
    /\ OutsideRoot(ret[1].doc, call.root) = OutsideRoot(call.payload.doc, call.root)
    /\ OutsideRoot(call.payload.doc, call.root) # {}

SynthesizeReturned == call.fn = "Synthesize" /\ ret # NoRet

\* The fields of an Auth that identify the credential.
Identity(a) ==
    [ID |-> a.ID, Provider |-> a.Provider, Prefix |-> a.Prefix,
     Attributes |-> a.Attributes]

NonBlankKey(entry) == TrimSpaceSeq(entry.APIKey) # <<>>

\* The Auth is the one of the entry of that provider.
AuthOfEntry(a, entry, provider, label) ==
    /\ a.Provider = provider
    /\ a.Label = label
    /\ a.Status = "active"
    /\ a.Attributes[<<"api_key">>] = TrimSpaceSeq(entry.APIKey)
    /\ a.CreatedAt = call.ctx.Now
    /\ a.UpdatedAt = call.ctx.Now

\* What the claim says of one returned list.
EmitsOnePerKey(r) ==
    LET gemini == SelectSeq(call.ctx.GeminiKey, NonBlankKey)
        codex  == SelectSeq(call.ctx.CodexKey, NonBlankKey)
    IN  /\ r.err = "nil"
        /\ Len(r.auths) = Len(gemini) + Len(codex)
        /\ \A k \in 1..Len(gemini) :
              AuthOfEntry(r.auths[k], gemini[k], "gemini", "gemini-apikey")
        /\ \A k \in 1..Len(codex) :
              AuthOfEntry(r.auths[Len(gemini) + k], codex[k], "codex", "codex-apikey")

\* C28: Synthesize emits exactly one Auth per configured entry whose API
\* key is non-blank after trimming, in configuration order with all Gemini
\* entries before all Codex entries, each with Status active, Label
\* "<provider>-apikey", api_key equal to the trimmed key and CreatedAt =
\* UpdatedAt = the injected Now; entries with empty or blank keys emit
\* nothing; a nil context or nil Config yields an empty list and no error.
C28_OneAuthPerNonBlankKey ==
    SynthesizeReturned =>
        \A i \in 1..Len(ret) :
            IF call.ctx.nil \/ call.ctx.cfgNil
            THEN ret[i].auths = <<>> /\ ret[i].err = "nil"
            ELSE EmitsOnePerKey(ret[i])

\* Both providers have a key, one entry has a blank key and one a key with
\* white space around it.
C28_Witness ==
    /\ SynthesizeReturned
    /\ ~call.ctx.cfgNil
    /\ \E k \in 1..Len(call.ctx.GeminiKey) : call.ctx.GeminiKey[k].APIKey = <<" ">>
    /\ \E k \in 1..Len(call.ctx.GeminiKey) : call.ctx.GeminiKey[k].APIKey = <<" ", "k">>
    /\ Len(ret[1].auths) = 2
    /\ ret[1].auths[1].Provider = "gemini"
    /\ ret[1].auths[2].Provider = "codex"

ConvertReturned == call.fn = "convertStreamToNonStream" /\ ret # NoRet

\* The parts of the valid lines of the stream, in stream order.
RECURSIVE StreamOrder(_)
StreamOrder(lines) ==
    IF lines = <<>> THEN <<>>
    ELSE (IF Head(lines).valid THEN Head(lines).parts ELSE <<>>) \o StreamOrder(Tail(lines))

\* "thought" or "text" for a part that is merged, "" for a part that is
\* copied (a function call, inline data, or a part of no known kind).
MergeKind(part) ==
    IF part.functionCall # 0 \/ part.inline # "" THEN ""
    ELSE IF part.thought THEN "thought"
    ELSE IF part.hasText THEN "text"
    ELSE ""

\* What the claim says the output is: the kind and the text of one part per
\* maximal run of text or of thought parts, and "" with the function call
\* for every copied part; run is the run being read, <<>> when none.
RECURSIVE MergedRuns(_, _)
MergedRuns(parts, run) ==
    IF parts = <<>> THEN run
    ELSE LET p == Head(parts)
             k == MergeKind(p)
         IN  IF k = ""
             THEN run \o <<[kind |-> "", text |-> <<>>, functionCall |-> p.functionCall]>>
                      \o MergedRuns(Tail(parts), <<>>)
             ELSE IF run # <<>> /\ run[1].kind = k
             THEN MergedRuns(Tail(parts),
                             <<[run[1] EXCEPT !.text = @ \o p.text]>>)
             ELSE run \o MergedRuns(Tail(parts),
                                    <<[kind |-> k, text |-> p.text, functionCall |-> 0]>>)

\* The kinds and texts of the parts returned.
Returned(parts) ==
    [i \in 1..Len(parts) |->
        [kind |-> MergeKind(parts[i]),
         text |-> IF MergeKind(parts[i]) = "" THEN <<>> ELSE parts[i].text,
         functionCall |-> parts[i].functionCall]]

NoAdjacentSameKind(parts) ==
    \A i \in 1..(Len(parts) - 1) :
        MergeKind(parts[i]) # "" => MergeKind(parts[i]) # MergeKind(parts[i + 1])

\* C29: the parts of the aggregate response are in stream order; every
\* maximal run of consecutive text parts and every maximal run of
\* consecutive thought parts is one part whose text is the concatenation of
\* the run; function-call and inline-data parts are copied one to one in
\* their order; so no two adjacent parts are both text or both thought.
C29_RunsMergedByKind ==
    ConvertReturned =>
        /\ Returned(ret[1].parts) = MergedRuns(StreamOrder(call.stream), <<>>)
        /\ NoAdjacentSameKind(ret[1].parts)

\* No run of the stream is dropped: then the output is as the claim says.
C29_RunsMergedWhenNotBlank ==
    /\ ConvertReturned
    /\ \A i \in 1..Len(MergedRuns(StreamOrder(call.stream), <<>>)) :
          LET r == MergedRuns(StreamOrder(call.stream), <<>>)[i]
          IN  r.kind # "" => TrimSpaceSeq(r.text) # <<>>
    => /\ Returned(ret[1].parts) = MergedRuns(StreamOrder(call.stream), <<>>)
       /\ NoAdjacentSameKind(ret[1].parts)

OnboardReturned == onboard.pc = "returned"

\* The requests sent never exceed maxAttempts, and the function has slept
\* pollInterval after every answer with status 200 that was not done.
OnboardPolling ==
    /\ onboard.requests <= maxAttempts
    /\ onboard.pc \in {"request", "awaiting"} =>
           onboard.slept = pollInterval * (onboard.attempt - 1)
    /\ onboard.pc = "sleeping" =>
           /\ onboard.last.status = StatusOK /\ onboard.last.done # "true"
           /\ onboard.slept = pollInterval * (onboard.requests - 1)

\* What the function returned, by the last answer.
OnboardResult ==
    OnboardReturned =>
        LET resp == onboard.last
            res  == onboard.result
        IN  IF res.err = "timed out"
            THEN /\ onboard.requests = maxAttempts
                 /\ resp.status = StatusOK /\ resp.done # "true"
                 /\ res.projectID = <<>>
            ELSE /\ resp.kind \in {"transport", "read"} =>
                        res.err \in {"execute request", "read response"}
                 /\ resp.kind = "http" /\ resp.status # StatusOK => res.err = "http"
                 /\ resp.kind = "http" /\ resp.status = StatusOK /\ resp.valid =>
                        /\ resp.done = "true"
                        /\ IF resp.form \in {"object", "string"} /\ TrimSpaceSeq(resp.id) # <<>>
                           THEN res.err = "nil" /\ res.projectID = TrimSpaceSeq(resp.id)
                           ELSE res.err = "no project_id"
                 /\ res.err # "nil" => res.projectID = <<>>
                 /\ onboard.slept = pollInterval * (onboard.requests - 1)

\* C30: antigravityOnboardUser always terminates after at most 150
\* onboardUser requests, sleeping 2 s after each 200 response that is not
\* done: it returns the project ID on the first done response that carries
\* one, an error on a done response without a project ID, an error without
\* further polling on any non-200 response or transport failure, and a
\* timeout error after the 150th not-done response.
C30_OnboardTerminates ==
    /\ <>OnboardReturned
    /\ [](OnboardPolling /\ OnboardResult)

\* The function returned the timeout error after maxAttempts requests.
C30_Witness ==
    /\ OnboardReturned
    /\ onboard.result.err = "timed out"
    /\ onboard.requests = maxAttempts
    /\ onboard.slept = pollInterval * maxAttempts

\* What Execute returns for the outcome o of its last upstream request.
ExecuteOutcomeResult(o) ==
    IF o.t = "http" /\ o.status >= StatusOK /\ o.status < StatusMultipleChoices
    THEN ResponseResult
    ELSE IF o.t = "http" THEN
        [kind |-> "error", err |-> "status", code |-> o.status, body |-> o.body,
         retryAfter |-> IF o.status = StatusTooManyRequests
                        THEN parseRetryDelay(o.body) ELSE <<>>]
    ELSE IF o.t = "ctxerr" THEN plainErr("context")
    ELSE plainErr(o.t)

\* The outcome lets Execute move to the next base URL.
ExecuteFallbackCause(o) ==
    \/ o.t = "neterr"
    \/ o.t = "http" /\ o.status = StatusTooManyRequests

C31_RequestStep ==
    (op = "agExecute" /\ UpstreamAnswered) =>
        \/ /\ idx' = idx + 1              \* the next request goes to the next base URL
           /\ idx + 1 < Len(baseURLs)
           /\ ExecuteFallbackCause(lastOutcome')
           /\ pc' = "request" /\ result' = NoResult
        \/ /\ idx' = idx                  \* the call returns the outcome of this request
           /\ pc' = "returned"
           /\ result' = ExecuteOutcomeResult(lastOutcome')

C31_Returned ==
    (op = "agExecute") =>
        /\ idx < Len(baseURLs)
        /\ pc \in {"request", "returned"}
        /\ (pc = "request") => result = NoResult
        /\ (pc = "request" /\ idx = 0) => lastOutcome = NoOutcome
        /\ (pc = "request" /\ idx > 0) => ExecuteFallbackCause(lastOutcome)
        /\ (pc = "returned") => result = ExecuteOutcomeResult(lastOutcome)

RequestSlot(a, i) == a * Len(baseURLs) + i

C32_Bounded ==
    /\ attempt < attempts
    /\ idx < Len(baseURLs)
    /\ RequestSlot(attempt, idx) < attempts * Len(baseURLs)
    /\ (pc = "wait") => attempt < attempts - 1

C32_Step ==
    \* a request is followed by a request on the next base URL of the attempt,
    \* by the validation of its body, by a wait, or by the return
    /\ (pc = "request" /\ pc' = "request") =>
           \/ UNCHANGED <<attempt, idx, lastOutcome>>      \* no request in this step
           \/ attempt' = attempt /\ idx' = idx + 1
    /\ (pc = "request" /\ pc' # "request") => attempt' = attempt
    \* a jump back to attemptLoop consumes one attempt
    /\ (pc # "request" /\ pc' = "request") =>
           (pc = "wait" /\ attempt' = attempt + 1 /\ idx' = 0)
    /\ (pc = "validate") => (pc' \in {"validate", "wait", "returned"} /\ attempt' = attempt)
    /\ (pc = "returned") => (pc' = "returned" /\ result' = result)
    \* the slot of the next request is never below the one used last
    /\ RequestSlot(attempt', idx') >= RequestSlot(attempt, idx) \/ pc' = "returned"

UsagePublishedBy(a) ==
    /\ reporter.published # <<>>
    /\ reporter.published[1] = [att |-> a, what |-> "usage"]

\* Attempt a of ExecuteStream was discarded: its body was closed and a retry
\* was started.
Discarded(a) ==
    \/ attempt > a
    \/ attempt = a /\ pc = "wait" /\ scanState = "closed"

\* C33: usage parsed from an ExecuteStream attempt that is discarded and
\* retried is never passed to reporter.publish; the usage the reporter
\* holds comes from the attempt whose stream is returned.
C33_DiscardedUsageNeverPublished ==
    (op = "agStream") =>
        /\ \A a \in 0..attempt : UsagePublishedBy(a) => ~Discarded(a)
        /\ (pc = "returned" /\ result.kind = "stream") =>
               \A a \in 0..attempt : UsagePublishedBy(a) => a = attempt

\* Two calls of ensureAPIToken are inside GetCopilotAPIToken for the same
\* GitHub access token.
ConcurrentFetches ==
    \E c, d \in Callers :
        /\ c # d
        /\ callers[c].pc = "fetching" /\ callers[d].pc = "fetching"
        /\ callers[c].key = callers[d].key

\* C34: concurrent ensureAPIToken calls for the same GitHub access token
\* whose cache entry is missing or stale make at most one upstream fetch
\* between them: no two of them are fetching at the same time, and a
\* fetched token that is returned is the token the cache holds.
C34_FetchDeduplicated ==
    /\ ~ConcurrentFetches
    /\ apiRet.kind = "fetched" => cache[apiRet.key].token = apiRet.token

\* A call of ensureAPIToken returns in this step.
APIReturns == apiRet' # apiRet /\ apiRet'.kind # "none"

C35_FailureStep ==
    \* the fetch failed: 401 and the cache as it was
    /\ \A c \in Callers :
           (callers[c].pc = "fetching" /\ callers'[c].pc = "idle"
            /\ apiRet'.kind # "fetched") =>
               /\ apiRet' = APIRet("401", c, callers[c].key, <<>>, 0)
               /\ cache' = cache
    \* a nil Auth or an Auth without access_token: 401, no fetch, cache as it was
    /\ (APIReturns /\ apiRet'.key = "") =>
           /\ apiRet'.kind = "401"
           /\ callers' = callers
           /\ cache' = cache
    \* a 401 comes from one of these two cases only
    /\ (APIReturns /\ apiRet'.kind = "401") =>
           /\ cache' = cache
           /\ \/ apiRet'.key = "" /\ callers' = callers
              \/ callers[apiRet'.caller] = [pc |-> "fetching", key |-> apiRet'.key]

\* C35: when the Copilot API-token fetch fails, ensureAPIToken returns a
\* StatusError with code 401 and leaves the token cache as it was (an entry
\* cached for that access token is neither removed nor replaced); a nil Auth
\* or an Auth without access_token yields a 401 with no fetch and no change
\* of the cache.
C35_FailedFetchKeepsCache == [][C35_FailureStep]_vars

\* C35 witness: a fetch failed for an access token that has a (stale) cache
\* entry, which is still there.
C35_Witness ==
    /\ apiRet.kind = "401"
    /\ apiRet.key \in AccessKeys
    /\ cache[apiRet.key].present
    /\ ~CacheHit(cache[apiRet.key], clock)

UpstreamReturned == call.fn = "antigravityUpstreamPayload" /\ ret # NoRet

\* thinkingBudget and maxOutputTokens of the payload sent upstream.
SentBudget == GetNumber(ret[1], InRequest(ThinkingBudgetKey))

SentMaxTokens == GetNumber(ret[1], InRequest(MaxOutputTokensKey))

\* The effective max tokens of the request: its maxOutputTokens when
\* positive, else the model default; 0 when there is neither.
EffectiveMaxOfRequest ==
    IF GetNumber(call.translated, InRequest(MaxOutputTokensKey)) # Absent
       /\ GetNumber(call.translated, InRequest(MaxOutputTokensKey))[1] > 0
    THEN GetNumber(call.translated, InRequest(MaxOutputTokensKey))[1]
    ELSE IF call.info # Absent THEN call.info[1].MaxCompletionTokens ELSE 0

\* The payload sent carries no thinkingBudget at or above max.
BudgetBelow(max) ==
    \/ ~Exists(ret[1], InRequest(ThinkingConfigKey))
    \/ SentBudget = Absent
    \/ max <= 0
    \/ SentBudget[1] < max

\* C36: for Claude models the payload sent upstream, after thinking
\* normalization, payload rules and buildRequest, carries no thinkingBudget
\* greater than or equal to the effective max tokens: the budget is below
\* the effective max, which is the maxOutputTokens sent, or the
\* thinkingConfig is absent.
C36_SentBudgetBelowMax ==
    (UpstreamReturned /\ call.isClaude) =>
        /\ BudgetBelow(EffectiveMaxOfRequest)
        /\ SentMaxTokens # Absent => BudgetBelow(SentMaxTokens[1])

\* No rule of the configuration applies to the model.
NoRuleApplies ==
    \A kind \in {"Default", "Override", "Filter"} :
        \A i \in 1..Len(call.cfg.Payload[kind]) :
            call.cfg.Payload[kind][i].Models # Matching

\* What does hold: the bound, when no payload rule applies to the model.
C36_BudgetBelowMaxWithoutRules ==
    (UpstreamReturned /\ call.isClaude /\ NoRuleApplies) =>
        /\ BudgetBelow(EffectiveMaxOfRequest)
        /\ SentMaxTokens # Absent => BudgetBelow(SentMaxTokens[1])

\* Goroutine c returns from GetTokenStore in this step.
GetTokenStoreReturns(c) ==
    tokenStore.g[c].pc # "idle" /\ tokenStore'.g[c].pc = "idle"

C37_ReturnStep ==
    \A c \in Callers :
        \* the call started after the last RegisterTokenStore had returned
        \* and no other one has been called since
        (/\ GetTokenStoreReturns(c)
         /\ tokenStore.g[c].clean
         /\ tokenStore.lastRegistered.kind = "custom")
            => tokenStore'.g[c].ret = tokenStore.lastRegistered

C37_Returned ==
    /\ \A c \in Callers : tokenStore.g[c].ret # NilStore
    /\ tokenStore.registers = 0 =>
           /\ tokenStore.created <= 1
           /\ \A c \in Callers :
                  tokenStore.g[c].ret # NoStore => tokenStore.g[c].ret = FileStore(1)

\* C37: GetTokenStore never returns nil; while RegisterTokenStore has not
\* been called, concurrent GetTokenStore calls create the default file store
\* at most once and all return that instance; after RegisterTokenStore(s)
\* with a non-nil s, every GetTokenStore called later returns s, until
\* RegisterTokenStore is called again.
C37_TokenStoreSingleton ==
    /\ []C37_Returned
    /\ [][C37_ReturnStep]_vars

\* C37 witness: both goroutines went through the slow path (each saw nil
\* under the read lock) and both returned the one file store.
C37_Witness ==
    /\ tokenStore.registers = 0
    /\ tokenStore.created = 1
    /\ \A c \in Callers :
           /\ tokenStore.g[c].pc = "idle"
           /\ tokenStore.g[c].s = NilStore
           /\ tokenStore.g[c].ret = FileStore(1)

\* The callback Login has taken passes the three tests.
ValidCallback(res) == res.Error = "" /\ res.State = LoginState /\ res.Code # ""

LoginReturned == login.pc = "returned"

LoginFailed == login.result.kind = "error" /\ login.exchanges = 0

C38_ExchangeOnlyValid ==
    /\ login.exchanges > 0 => ValidCallback(login.cbRes)
    /\ login.result.kind = "auth" => login.exchanges = 1
    /\ (LoginReturned /\ ~ValidCallback(login.cbRes)) => LoginFailed

\* C38: Login exchanges an authorization code for tokens only if the
\* callback, from the browser or pasted, has an empty error, the state
\* generated for this login and a non-empty code; in every other case, and
\* when no callback has come within 5 minutes, Login returns an error,
\* sends no token-exchange request and returns no Auth.
C38_LoginExchangesValidCallbackOnly ==
    /\ C38_ExchangeOnlyValid
    /\ (LoginReturned /\ ~login.inTime) => LoginFailed

\* What does hold: the tests of the callback, and the timeout of a Login
\* without opts.Prompt.
C38_WithoutPrompt ==
    /\ C38_ExchangeOnlyValid
    /\ (LoginReturned /\ ~login.inTime /\ ~login.hasPrompt) => LoginFailed

====
